---- MODULE Spec2Model ----
(***************************************************************************)
(* A model of the retrieval engine of rag-conversational-agent:            *)
(*   chunker.py    TextChunker (sentence packing, ids, citations)          *)
(*   retriever.py  HybridRetriever (index life cycle, BM25 + vector + RRF) *)
(*   chat_agent.py ConversationalAgent (answer validation, history)        *)
(*   app.py        the /chat and /upload handlers around one retriever     *)
(* Strings are sequences of one-character strings, so that strip, split,   *)
(* join, lower-casing and tokenization are computed and not assumed.       *)
(***************************************************************************)
EXTENDS Integers, Sequences, FiniteSets, TLC

\* ------------------------------------------------------------------ bounds
\* Longest corpus handed to index_chunks.
MaxChunks == 3
\* Index-changing calls (index_chunks, clear_index, restarts) in one behaviour.
MaxOps == 2
\* Most pages of a document.
MaxPages == 2
\* Most files of an upload request.
MaxFiles == 2
\* Longest ranking handed to the fusion of search_hybrid.
MaxRanked == 3

\* ------------------------------------------------------- program constants
\* retriever.py: batch_size of get_embeddings and of the add loop.
batch_size == 100
\* retriever.py: RRF constant k.
rrf_k == 60
\* retriever.py: default vector_weight 0.6 and bm25_weight 0.4, in tenths.
vector_weight == 6
bm25_weight == 4

\* ------------------------------------------------------------ characters
UpperSeq ==
    << "A","B","C","D","E","F","G","H","I","J","K","L","M",
       "N","O","P","Q","R","S","T","U","V","W","X","Y","Z" >>
LowerSeq ==
    << "a","b","c","d","e","f","g","h","i","j","k","l","m",
       "n","o","p","q","r","s","t","u","v","w","x","y","z" >>

\* str.lower() on one character.
LowerChar(c) ==
    IF \E i \in 1..Len(UpperSeq) : UpperSeq[i] = c
    THEN LowerSeq[CHOOSE i \in 1..Len(UpperSeq) : UpperSeq[i] = c]
    ELSE c

\* \s of the regular expressions, and the characters str.strip() removes.
IsSpace(c) == c \in {" ", "\n", "\t"}
\* \d
IsDigit(c) == c \in {"0","1","2","3","4","5","6","7","8","9"}
\* Characters that are neither \w nor \s.
IsPunct(c) == c \in {".", "!", "?", ",", ";", ":", "<", ">", "[", "]", "-"}
\* \w
IsWordChar(c) == ~IsSpace(c) /\ ~IsPunct(c)

\* str.lower()
Lower(s) == [i \in 1..Len(s) |-> LowerChar(s[i])]

RECURSIVE LStrip(_)
LStrip(s) ==
    IF s = << >> THEN << >>
    ELSE IF IsSpace(Head(s)) THEN LStrip(Tail(s)) ELSE s

RECURSIVE RStrip(_)
RStrip(s) ==
    IF s = << >> THEN << >>
    ELSE IF IsSpace(s[Len(s)]) THEN RStrip(SubSeq(s, 1, Len(s) - 1)) ELSE s

\* str.strip()
Strip(s) == RStrip(LStrip(s))

\* The longest prefix of s made of word characters.
RECURSIVE WordPrefix(_)
WordPrefix(s) ==
    IF s = << >> \/ ~IsWordChar(Head(s)) THEN << >>
    ELSE << Head(s) >> \o WordPrefix(Tail(s))

\* re.findall(r'\b\w+\b', s): the maximal runs of word characters, in order.
RECURSIVE FindWords(_)
FindWords(s) ==
    IF s = << >> THEN << >>
    ELSE IF IsWordChar(Head(s))
         THEN LET w == WordPrefix(s)
              IN  << w >> \o FindWords(SubSeq(s, Len(w) + 1, Len(s)))
         ELSE FindWords(Tail(s))

\* HybridRetriever.tokenize
tokenize(text) == FindWords(Lower(text))

\* str.split(): the maximal runs of non-whitespace characters.
RECURSIVE NonSpacePrefix(_)
NonSpacePrefix(s) ==
    IF s = << >> \/ IsSpace(Head(s)) THEN << >>
    ELSE << Head(s) >> \o NonSpacePrefix(Tail(s))

RECURSIVE SplitWhitespace(_)
SplitWhitespace(s) ==
    IF s = << >> THEN << >>
    ELSE IF IsSpace(Head(s)) THEN SplitWhitespace(Tail(s))
         ELSE LET w == NonSpacePrefix(s)
              IN  << w >> \o SplitWhitespace(SubSeq(s, Len(w) + 1, Len(s)))

\* ------------------------------------------------------------- chunker.py
\* A TextChunker is [chunk_size, chunk_overlap, min_chunk_size, tokenizer]:
\* tokenizer is TRUE when tiktoken's encoding loaded, FALSE when the
\* constructor fell back to None.

\* sep.join(parts)
RECURSIVE Join(_, _)
Join(parts, sep) ==
    IF parts = << >> THEN << >>
    ELSE IF Len(parts) = 1 THEN parts[1]
         ELSE parts[1] \o sep \o Join(Tail(parts), sep)

\* The pieces tiktoken's encoder cuts a text into, abstracted: every maximal
\* run of word characters is one token and every punctuation mark is one.
RECURSIVE Encode(_)
Encode(s) ==
    IF s = << >> THEN << >>
    ELSE IF IsSpace(Head(s)) THEN Encode(Tail(s))
         ELSE IF IsWordChar(Head(s))
              THEN LET w == WordPrefix(s)
                   IN  << w >> \o Encode(SubSeq(s, Len(w) + 1, Len(s)))
              ELSE << << Head(s) >> >> \o Encode(Tail(s))

\* TextChunker.count_tokens
count_tokens(self, text) ==
    IF self.tokenizer THEN Len(Encode(text)) ELSE Len(SplitWhitespace(text))

\* The abbreviations of split_into_sentences' first pattern.
Abbreviations ==
    { <<"M","r">>, <<"M","r","s">>, <<"M","s">>, <<"D","r">>,
      <<"P","r","o","f">>, <<"I","n","c">>, <<"L","t","d">>,
      <<"C","o","r","p">>, <<"v","s">>, <<"e","t","c">>,
      <<"e",".","g">>, <<"i",".","e">>, <<"R","s">>, <<"C","r">>,
      <<"M","n">>, <<"B","n">> }

\* \b(?:Mr|Mrs|...)\. matches with its period at position i of s.
AbbrevPeriodAt(s, i) ==
    /\ s[i] = "."
    /\ \E a \in Abbreviations :
          /\ i - Len(a) >= 1
          /\ SubSeq(s, i - Len(a), i - 1) = a
          /\ (i - Len(a) = 1 \/ ~IsWordChar(s[i - Len(a) - 1]))

\* (\d+)\.(\d+) matches with its period at position i of s.
DecimalPeriodAt(s, i) ==
    /\ s[i] = "."
    /\ i > 1 /\ i < Len(s)
    /\ IsDigit(s[i - 1]) /\ IsDigit(s[i + 1])

\* The two re.sub calls: protected periods become placeholders.
ProtectPeriods(s) ==
    [i \in 1..Len(s) |->
        IF AbbrevPeriodAt(s, i) THEN "<PERIOD>"
        ELSE IF DecimalPeriodAt(s, i) THEN "<DECIMAL>"
        ELSE s[i]]

\* s.replace('<PERIOD>', '.').replace('<DECIMAL>', '.')
RestorePeriods(s) ==
    [i \in 1..Len(s) |-> IF s[i] \in {"<PERIOD>", "<DECIMAL>"} THEN "." ELSE s[i]]

\* re.split(r'(?<=[.!?])\s+', s): cut at every whitespace run that follows
\* a sentence terminator; the run itself is dropped.
RECURSIVE SplitSentenceEnds(_, _)
SplitSentenceEnds(s, acc) ==
    IF s = << >> THEN << acc >>
    ELSE IF IsSpace(Head(s)) /\ acc # << >> /\ acc[Len(acc)] \in {".", "!", "?"}
         THEN << acc >> \o SplitSentenceEnds(LStrip(s), << >>)
         ELSE SplitSentenceEnds(Tail(s), Append(acc, Head(s)))

\* The non-empty members of a list of strings, each stripped.
RECURSIVE StripNonEmpty(_)
StripNonEmpty(parts) ==
    IF parts = << >> THEN << >>
    ELSE IF Strip(Head(parts)) = << >> THEN StripNonEmpty(Tail(parts))
         ELSE << Strip(Head(parts)) >> \o StripNonEmpty(Tail(parts))

\* TextChunker.split_into_sentences
split_into_sentences(text) ==
    LET split == SplitSentenceEnds(ProtectPeriods(text), << >>)
        restored == [i \in 1..Len(split) |-> RestorePeriods(split[i])]
    IN  StripNonEmpty(restored)

\* re.split(r'[;,]\s*', s): cut at every comma or semicolon, dropping it and
\* the whitespace after it; empty parts are kept.
RECURSIVE SplitClauses(_, _)
SplitClauses(s, acc) ==
    IF s = << >> THEN << acc >>
    ELSE IF Head(s) \in {";", ","}
         THEN << acc >> \o SplitClauses(LStrip(Tail(s)), << >>)
         ELSE SplitClauses(Tail(s), Append(acc, Head(s)))

\* The loop of _split_long_sentence over parts[i..], with the chunks closed
\* so far, the open list `current` and its size.
RECURSIVE SplitLongLoop(_, _, _, _, _, _)
SplitLongLoop(self, parts, i, chunks, current, current_size) ==
    IF i > Len(parts)
    THEN IF current # << >> THEN Append(chunks, Join(current, <<",", " ">>))
         ELSE chunks
    ELSE LET part == parts[i]
             part_size == count_tokens(self, part)
         IN  IF current_size + part_size > self.chunk_size
             THEN SplitLongLoop(self, parts, i + 1,
                      IF current # << >>
                      THEN Append(chunks, Join(current, <<",", " ">>))
                      ELSE chunks,
                      << part >>, part_size)
             ELSE SplitLongLoop(self, parts, i + 1, chunks,
                      Append(current, part), current_size + part_size)

\* TextChunker._split_long_sentence
split_long_sentence(self, sentence) ==
    SplitLongLoop(self, SplitClauses(sentence, << >>), 1, << >>, << >>, 0)

\* A variant of the overlap loop that carries every sentence of
\* current_chunk forward, whatever chunk_overlap is.
RECURSIVE OverlapSentencesUnbounded(_, _, _, _, _)
OverlapSentencesUnbounded(self, current_chunk, j, overlap_sentences, overlap_size) ==
    IF j = 0 THEN [sentences |-> overlap_sentences, size |-> overlap_size]
    ELSE OverlapSentencesUnbounded(self, current_chunk, j - 1,
             << current_chunk[j] >> \o overlap_sentences,
             overlap_size + count_tokens(self, current_chunk[j]))

\* The overlap loop of _chunk_text: walking current_chunk[1..j] backwards,
\* keep sentences while their sizes stay within chunk_overlap.
RECURSIVE OverlapSentences(_, _, _, _, _)
OverlapSentences(self, current_chunk, j, overlap_sentences, overlap_size) ==
    IF j = 0 THEN [sentences |-> overlap_sentences, size |-> overlap_size]
    ELSE LET s_size == count_tokens(self, current_chunk[j])
         IN  IF overlap_size + s_size <= self.chunk_overlap
             THEN OverlapSentences(self, current_chunk, j - 1,
                      << current_chunk[j] >> \o overlap_sentences,
                      overlap_size + s_size)
             ELSE [sentences |-> overlap_sentences, size |-> overlap_size]

\* The sentence loop of _chunk_text over sentences[i..].
RECURSIVE ChunkLoop(_, _, _, _, _, _)
ChunkLoop(self, sentences, i, chunks, current_chunk, current_size) ==
    IF i > Len(sentences)
    THEN IF current_chunk # << >>
         THEN Append(chunks, Join(current_chunk, << " " >>))
         ELSE chunks
    ELSE LET sentence == sentences[i]
             sentence_size == count_tokens(self, sentence)
         IN  IF sentence_size > self.chunk_size
             THEN ChunkLoop(self, sentences, i + 1,
                      (IF current_chunk # << >>
                       THEN Append(chunks, Join(current_chunk, << " " >>))
                       ELSE chunks) \o split_long_sentence(self, sentence),
                      IF current_chunk # << >> THEN << >> ELSE current_chunk,
                      IF current_chunk # << >> THEN 0 ELSE current_size)
             ELSE IF current_size + sentence_size > self.chunk_size
                     /\ current_chunk # << >>
                  THEN LET ov == OverlapSentences(self, current_chunk,
                                     Len(current_chunk), << >>, 0)
                       IN  ChunkLoop(self, sentences, i + 1,
                               Append(chunks, Join(current_chunk, << " " >>)),
                               Append(ov.sentences, sentence),
                               ov.size + sentence_size)
                  ELSE ChunkLoop(self, sentences, i + 1, chunks,
                           Append(current_chunk, sentence),
                           current_size + sentence_size)

\* TextChunker._chunk_text
chunk_text(self, text) ==
    LET sentences == split_into_sentences(text)
    IN  IF sentences = << >>
        THEN IF Strip(text) # << >> THEN << text >> ELSE << >>
        ELSE ChunkLoop(self, sentences, 1, << >>, << >>, 0)

\* The sentence loop of _chunk_text once more, with every chunk kept as the
\* list it was joined from: packed is TRUE for ' '.join(current_chunk) and
\* FALSE for a piece of _split_long_sentence; carried is the number of
\* leading sentences that came from overlap_sentences.  cur is
\* [sentences, carried, size] for current_chunk and current_size.
RECURSIVE PackLoop(_, _, _, _, _)
PackLoop(self, sentences, i, chunks, cur) ==
    LET closed == [packed |-> TRUE, sentences |-> cur.sentences,
                   carried |-> cur.carried]
        empty == [sentences |-> << >>, carried |-> 0, size |-> 0]
    IN  IF i > Len(sentences)
        THEN IF cur.sentences # << >> THEN Append(chunks, closed) ELSE chunks
        ELSE LET sentence == sentences[i]
                 sentence_size == count_tokens(self, sentence)
                 pieces == split_long_sentence(self, sentence)
             IN  IF sentence_size > self.chunk_size
                 THEN PackLoop(self, sentences, i + 1,
                          (IF cur.sentences # << >> THEN Append(chunks, closed)
                           ELSE chunks)
                          \o [k \in 1..Len(pieces) |->
                                 [packed |-> FALSE, sentences |-> << pieces[k] >>,
                                  carried |-> 0]],
                          IF cur.sentences # << >> THEN empty ELSE cur)
                 ELSE IF cur.size + sentence_size > self.chunk_size
                         /\ cur.sentences # << >>
                      THEN LET ov == OverlapSentences(self, cur.sentences,
                                         Len(cur.sentences), << >>, 0)
                           IN  PackLoop(self, sentences, i + 1,
                                   Append(chunks, closed),
                                   [sentences |-> Append(ov.sentences, sentence),
                                    carried |-> Len(ov.sentences),
                                    size |-> ov.size + sentence_size])
                      ELSE PackLoop(self, sentences, i + 1, chunks,
                               [sentences |-> Append(cur.sentences, sentence),
                                carried |-> cur.carried,
                                size |-> cur.size + sentence_size])

\* A variant of chunk_sentences that forgets the chunk the loop ends with.
chunk_sentences_without_last(self, text) ==
    LET sentences == split_into_sentences(text)
        trace == PackLoop(self, sentences, 1, << >>,
                          [sentences |-> << >>, carried |-> 0, size |-> 0])
    IN  SubSeq(trace, 1, Len(trace) - 1)

\* TextChunker._chunk_text, chunk by chunk as PackLoop keeps them.
chunk_sentences(self, text) ==
    LET sentences == split_into_sentences(text)
    IN  IF sentences = << >>
        THEN IF Strip(text) # << >>
             THEN << [packed |-> FALSE, sentences |-> << text >>, carried |-> 0] >>
             ELSE << >>
        ELSE PackLoop(self, sentences, 1, << >>,
                      [sentences |-> << >>, carried |-> 0, size |-> 0])

\* str(n) for n >= 0
RECURSIVE Str(_)
Str(n) ==
    LET digits == <<"0","1","2","3","4","5","6","7","8","9">>
    IN  IF n < 10 THEN << digits[n + 1] >>
        ELSE Str(n \div 10) \o << digits[(n % 10) + 1] >>

\* f"[p{page_num}:c{chunk_id}]"
PageCitation(page_num, chunk_id) ==
    <<"[", "p">> \o Str(page_num) \o <<":", "c">> \o Str(chunk_id) \o <<"]">>

\* A variant of the inner loop of chunk_pages that counts the chunks it
\* drops too.
RECURSIVE EmitChunksCountingDropped(_, _, _, _, _)
EmitChunksCountingDropped(self, page_num, page_chunks, i, st) ==
    IF i > Len(page_chunks) THEN st
    ELSE LET chunk_text_i == page_chunks[i]
         IN  EmitChunksCountingDropped(self, page_num, page_chunks, i + 1,
                 [all_chunks |->
                      IF Len(Strip(chunk_text_i)) >= self.min_chunk_size
                      THEN Append(st.all_chunks,
                               [chunk_id |-> st.chunk_id,
                                page_num |-> page_num,
                                text |-> Strip(chunk_text_i),
                                token_count |-> count_tokens(self, chunk_text_i),
                                citation |-> PageCitation(page_num, st.chunk_id)])
                      ELSE st.all_chunks,
                  chunk_id |-> st.chunk_id + 1])

\* A variant of the inner loop of chunk_pages without the minimum-size test.
RECURSIVE EmitChunksUnfiltered(_, _, _, _, _)
EmitChunksUnfiltered(self, page_num, page_chunks, i, st) ==
    IF i > Len(page_chunks) THEN st
    ELSE LET chunk_text_i == page_chunks[i]
         IN  EmitChunksUnfiltered(self, page_num, page_chunks, i + 1,
                 [all_chunks |-> Append(st.all_chunks,
                      [chunk_id |-> st.chunk_id,
                       page_num |-> page_num,
                       text |-> Strip(chunk_text_i),
                       token_count |-> count_tokens(self, chunk_text_i),
                       citation |-> PageCitation(page_num, st.chunk_id)]),
                  chunk_id |-> st.chunk_id + 1])

\* The inner loop of chunk_pages over page_chunks[i..]; st holds the two
\* locals all_chunks and chunk_id.
RECURSIVE EmitChunks(_, _, _, _, _)
EmitChunks(self, page_num, page_chunks, i, st) ==
    IF i > Len(page_chunks) THEN st
    ELSE LET chunk_text_i == page_chunks[i]
         IN  IF Len(Strip(chunk_text_i)) >= self.min_chunk_size
             THEN EmitChunks(self, page_num, page_chunks, i + 1,
                      [all_chunks |-> Append(st.all_chunks,
                          [chunk_id |-> st.chunk_id,
                           page_num |-> page_num,
                           text |-> Strip(chunk_text_i),
                           token_count |-> count_tokens(self, chunk_text_i),
                           citation |-> PageCitation(page_num, st.chunk_id)]),
                       chunk_id |-> st.chunk_id + 1])
             ELSE EmitChunks(self, page_num, page_chunks, i + 1, st)

\* The page loop of chunk_pages over pages_data[p..].
RECURSIVE PagesLoop(_, _, _, _)
PagesLoop(self, pages_data, p, st) ==
    IF p > Len(pages_data) THEN st
    ELSE LET page == pages_data[p]
         IN  IF page.text = << >> \/ Len(Strip(page.text)) < self.min_chunk_size
             THEN PagesLoop(self, pages_data, p + 1, st)
             ELSE PagesLoop(self, pages_data, p + 1,
                      EmitChunks(self, page.page_num,
                          chunk_text(self, page.text), 1, st))

\* TextChunker.chunk_pages
chunk_pages(self, pages_data) ==
    PagesLoop(self, pages_data, 1, [all_chunks |-> << >>, chunk_id |-> 0]).all_chunks

\* ----------------------------------------------------------- retriever.py
\* The persisted store holds at most one collection of the retriever's name:
\* [exists, items], items in insertion order, each item
\* [id, embedding, document, metadata].  self.collection is [set]: set is
\* FALSE while the attribute was never assigned.  Every create_collection
\* and get_collection assigns the handle it returns to self.collection, so
\* a handle that is set refers to the collection that exists, or, when none
\* exists, to one that was deleted.
\* self.bm25 is [built, corpus]: built is FALSE for None.
NoStore == [exists |-> FALSE, items |-> << >>]
NoCollection == [set |-> FALSE]
LiveCollection == [set |-> TRUE]
NoBM25 == [built |-> FALSE, corpus |-> << >>]

Min(a, b) == IF a <= b THEN a ELSE b

\* The embedder, abstracted: the embedding of a text is its set of
\* lower-cased words.
Embed(text) ==
    LET words == tokenize(text)
    IN  {words[i] : i \in 1..Len(words)}

\* A variant of EmbedBatches whose next batch begins with the last text of
\* the batch before.
RECURSIVE EmbedBatchesOverlapping(_, _)
EmbedBatchesOverlapping(texts, i) ==
    IF i > Len(texts) THEN << >>
    ELSE LET batch == SubSeq(texts, i, Min(i + batch_size - 1, Len(texts)))
         IN  [j \in 1..Len(batch) |-> Embed(batch[j])]
                 \o (IF i + batch_size - 1 >= Len(texts) THEN << >>
                     ELSE EmbedBatchesOverlapping(texts, i + batch_size - 1))

\* get_embeddings, lines 52-53: the batches sent to the embedder from
\* texts[i] on, in the order they are sent.
RECURSIVE SentBatches(_, _)
SentBatches(texts, i) ==
    IF i > Len(texts) THEN << >>
    ELSE << SubSeq(texts, i, Min(i + batch_size - 1, Len(texts))) >>
             \o SentBatches(texts, i + batch_size)

\* HybridRetriever.get_embeddings from texts[i] on, batch by batch.
RECURSIVE EmbedBatches(_, _)
EmbedBatches(texts, i) ==
    IF i > Len(texts) THEN << >>
    ELSE LET batch == SubSeq(texts, i, Min(i + batch_size - 1, Len(texts)))
         IN  [j \in 1..Len(batch) |-> Embed(batch[j])]
                 \o EmbedBatches(texts, i + batch_size)

\* HybridRetriever.get_embeddings
get_embeddings(texts) == EmbedBatches(texts, 1)

\* The store's cosine distance, abstracted to an integer: the more words two
\* embeddings share, the smaller.
Distance(e1, e2) == 1 - Cardinality(e1 \cap e2)

\* x inserted into s, which is ascending by key, after the entries whose key
\* is not greater (a stable insertion).
RECURSIVE InsertAsc(_, _)
InsertAsc(s, x) ==
    IF s = << >> THEN << x >>
    ELSE IF x.key < Head(s).key THEN << x >> \o s
         ELSE << Head(s) >> \o InsertAsc(Tail(s), x)

\* A stable ascending sort of records by their key field.
RECURSIVE SortAsc(_)
SortAsc(s) ==
    IF s = << >> THEN << >>
    ELSE InsertAsc(SortAsc(SubSeq(s, 1, Len(s) - 1)), s[Len(s)])

Reverse(s) == [i \in 1..Len(s) |-> s[Len(s) + 1 - i]]

\* The texts, ids and metadatas index_chunks prepares, as store items.
PrepareItems(cs) ==
    LET texts == [i \in 1..Len(cs) |-> cs[i].text]
        embeddings == get_embeddings(texts)
    IN  [i \in 1..Len(cs) |->
            [id |-> Str(cs[i].chunk_id),
             embedding |-> embeddings[i],
             document |-> texts[i],
             metadata |-> [page_num |-> cs[i].page_num,
                           chunk_id |-> cs[i].chunk_id,
                           citation |-> cs[i].citation,
                           token_count |-> cs[i].token_count]]]

\* A variant of _build_bm25_index that keeps a BM25 index that is already
\* built.
build_bm25_index_once(texts, old_bm25) ==
    LET tc == [i \in 1..Len(texts) |-> tokenize(texts[i])]
        wordless == \A i \in 1..Len(tc) : tc[i] = << >>
    IN  [tokenized_corpus |-> tc,
         bm25 |-> IF wordless \/ old_bm25.built THEN old_bm25
                  ELSE [built |-> TRUE, corpus |-> tc],
         raised |-> wordless]

\* HybridRetriever._build_bm25_index: tokenized_corpus is assigned, then
\* BM25Okapi is built from it; BM25Okapi divides by the corpus size and by
\* the number of distinct words, so a corpus without a word (an empty one
\* too) raises ZeroDivisionError and leaves self.bm25 as it was.
build_bm25_index(texts, old_bm25) ==
    LET tc == [i \in 1..Len(texts) |-> tokenize(texts[i])]
        wordless == \A i \in 1..Len(tc) : tc[i] = << >>
    IN  [tokenized_corpus |-> tc,
         bm25 |-> IF wordless THEN old_bm25 ELSE [built |-> TRUE, corpus |-> tc],
         raised |-> wordless]

\* A variant of RebuiltChunks that keeps the order collection.get listed
\* the items in.
RebuiltChunksUnsorted(results) ==
    [i \in 1..Len(results) |->
        [chunk_id |-> results[i].metadata.chunk_id,
         page_num |-> results[i].metadata.page_num,
         text |-> results[i].document,
         citation |-> results[i].metadata.citation,
         token_count |-> results[i].metadata.token_count]]

\* The chunk list _rebuild_bm25_from_collection reconstructs from the
\* documents and metadatas the store returned, sorted by chunk_id.
RebuiltChunks(results) ==
    LET keyed == [i \in 1..Len(results) |->
                    [key |-> results[i].metadata.chunk_id,
                     chunk |-> [chunk_id |-> results[i].metadata.chunk_id,
                                page_num |-> results[i].metadata.page_num,
                                text |-> results[i].document,
                                citation |-> results[i].metadata.citation,
                                token_count |-> results[i].metadata.token_count]]]
        sorted == SortAsc(keyed)
    IN  [i \in 1..Len(sorted) |-> sorted[i].chunk]

\* A variant of _rebuild_bm25_from_collection that rebuilds the BM25 index
\* but leaves self.chunks as it finds it.
rebuild_keeping_chunks(results, old_chunks, old_tc, old_bm25) ==
    IF results # << >>
    THEN LET cs == RebuiltChunks(results)
             b == build_bm25_index([i \in 1..Len(cs) |-> cs[i].text], old_bm25)
         IN  [chunks |-> old_chunks, tokenized_corpus |-> b.tokenized_corpus,
              bm25 |-> b.bm25, raised |-> b.raised]
    ELSE [chunks |-> old_chunks, tokenized_corpus |-> old_tc, bm25 |-> old_bm25,
          raised |-> FALSE]

\* HybridRetriever._rebuild_bm25_from_collection on what collection.get
\* returned: the new [chunks, tokenized_corpus, bm25], and whether
\* _build_bm25_index raised.
rebuild_bm25_from_collection(results, old_chunks, old_tc, old_bm25) ==
    IF results # << >>
    THEN LET cs == RebuiltChunks(results)
             b == build_bm25_index([i \in 1..Len(cs) |-> cs[i].text], old_bm25)
         IN  [chunks |-> cs, tokenized_corpus |-> b.tokenized_corpus,
              bm25 |-> b.bm25, raised |-> b.raised]
    ELSE [chunks |-> old_chunks, tokenized_corpus |-> old_tc, bm25 |-> old_bm25,
          raised |-> FALSE]

\* collection.query: the n_results items nearest to the query embedding, by
\* ascending distance (insertion order among equals), with their distances.
QueryStore(items, query_embedding, n_results) ==
    LET keyed == [i \in 1..Len(items) |->
                    [key |-> Distance(query_embedding, items[i].embedding),
                     item |-> items[i]]]
        sorted == SortAsc(keyed)
    IN  SubSeq(sorted, 1, Min(n_results, Len(sorted)))

\* A variant of search_vector whose guard finds self.collection set to None
\* and that answers a missing collection with no results.
search_vector_lenient(st, col, query, top_k) ==
    IF ~col.set \/ ~st.exists THEN [err |-> "", items |-> << >>]
    ELSE LET query_embedding == get_embeddings(<< query >>)[1]
             results == QueryStore(st.items, query_embedding, top_k)
         IN  [err |-> "",
              items |-> [i \in 1..Len(results) |->
                  [chunk |-> [text |-> results[i].item.document,
                              page_num |-> results[i].item.metadata.page_num,
                              chunk_id |-> results[i].item.metadata.chunk_id,
                              citation |-> results[i].item.metadata.citation],
                   score |-> 1 - results[i].key]]]

\* HybridRetriever.search_vector: [err, items].  The guard reads
\* self.collection, which __init__ never assigns, so before the first
\* create_collection or get_collection it raises AttributeError; a handle to
\* a collection that was deleted makes collection.query raise.
search_vector(st, col, query, top_k) ==
    IF ~col.set THEN [err |-> "AttributeError", items |-> << >>]
    ELSE IF ~st.exists THEN [err |-> "CollectionNotFound", items |-> << >>]
    ELSE LET query_embedding == get_embeddings(<< query >>)[1]
             results == QueryStore(st.items, query_embedding, top_k)
         IN  [err |-> "",
              items |-> [i \in 1..Len(results) |->
                  [chunk |-> [text |-> results[i].item.document,
                              page_num |-> results[i].item.metadata.page_num,
                              chunk_id |-> results[i].item.metadata.chunk_id,
                              citation |-> results[i].item.metadata.citation],
                   score |-> 1 - results[i].key]]]

\* rank_bm25's BM25Okapi, with integers for its floats.  The words of the
\* corpus and the number of documents a word occurs in:
Vocabulary(corpus) == UNION { {corpus[i][j] : j \in 1..Len(corpus[i])} : i \in 1..Len(corpus) }
DocFreq(corpus, w) ==
    Cardinality({i \in 1..Len(corpus) : \E j \in 1..Len(corpus[i]) : corpus[i][j] = w})

\* log(N - n + 0.5) - log(n + 0.5) has the sign of N - 2n, which stands for it.
IdfRaw(corpus, w) == Len(corpus) - 2 * DocFreq(corpus, w)

RECURSIVE IdfSumOver(_, _)
IdfSumOver(corpus, words) ==
    IF words = {} THEN 0
    ELSE LET w == CHOOSE x \in words : TRUE
         IN  IdfRaw(corpus, w) + IdfSumOver(corpus, words \ {w})

\* BM25Okapi._calc_idf: a negative idf is replaced by epsilon (0.25) times
\* the average idf; every value is scaled by 4 * (number of words).
Idf(corpus, w) ==
    LET words == Vocabulary(corpus)
    IN  IF w \notin words THEN 0
        ELSE IF IdfRaw(corpus, w) < 0 THEN IdfSumOver(corpus, words)
        ELSE 4 * Cardinality(words) * IdfRaw(corpus, w)

RECURSIVE CountIn(_, _)
CountIn(doc, tok) ==
    IF doc = << >> THEN 0
    ELSE (IF Head(doc) = tok THEN 1 ELSE 0) + CountIn(Tail(doc), tok)

\* One document's score from query token k on: the sum of idf times the
\* term's weight in the document, for which its count stands (the length
\* normalisation is left out).
RECURSIVE DocScore(_, _, _, _)
DocScore(idf, doc, query_tokens, k) ==
    IF k > Len(query_tokens) THEN 0
    ELSE idf[k] * CountIn(doc, query_tokens[k]) + DocScore(idf, doc, query_tokens, k + 1)

\* BM25Okapi.get_scores
get_scores(corpus, query_tokens) ==
    LET idf == [k \in 1..Len(query_tokens) |-> Idf(corpus, query_tokens[k])]
    IN  [i \in 1..Len(corpus) |-> DocScore(idf, corpus[i], query_tokens, 1)]

\* A variant of TopIndices that takes the first top_k indices of the
\* ascending order.
TopIndicesAscending(scores, top_k) ==
    LET keyed == [i \in 1..Len(scores) |-> [key |-> scores[i], idx |-> i]]
        order == SortAsc(keyed)
    IN  [i \in 1..Min(top_k, Len(order)) |-> order[i].idx]

\* np.argsort(scores)[::-1][:top_k]
TopIndices(scores, top_k) ==
    LET keyed == [i \in 1..Len(scores) |-> [key |-> scores[i], idx |-> i]]
        order == Reverse(SortAsc(keyed))
    IN  [i \in 1..Min(top_k, Len(order)) |-> order[i].idx]

\* The result loop of search_bm25 over top_indices[i..]: IndexError when an
\* index with a positive score is past the end of self.chunks.
RECURSIVE BM25Results(_, _, _, _)
BM25Results(cs, scores, top_indices, i) ==
    IF i > Len(top_indices) THEN [err |-> "", items |-> << >>]
    ELSE LET idx == top_indices[i]
             rest == BM25Results(cs, scores, top_indices, i + 1)
         IN  IF scores[idx] > 0
             THEN IF idx > Len(cs) THEN [err |-> "IndexError", items |-> << >>]
                  ELSE IF rest.err # "" THEN rest
                  ELSE [err |-> "",
                        items |-> << [chunk |-> [text |-> cs[idx].text,
                                                 page_num |-> cs[idx].page_num,
                                                 chunk_id |-> cs[idx].chunk_id,
                                                 citation |-> cs[idx].citation],
                                      score |-> scores[idx]] >> \o rest.items]
             ELSE rest

\* HybridRetriever.search_bm25
search_bm25(b, cs, query, top_k) ==
    IF ~b.built \/ cs = << >> THEN [err |-> "", items |-> << >>]
    ELSE LET scores == get_scores(b.corpus, tokenize(query))
         IN  BM25Results(cs, scores, TopIndices(scores, top_k), 1)

\* A variant of RRFAdd that multiplies by k + rank + 1.
RRFAddRising(score, weight, rank) ==
    [num |-> score.num + weight * (rrf_k + rank + 1) * score.den,
     den |-> score.den]

\* A variant of RRFAdd that divides by k + rank.
RRFAddFromRankZero(score, weight, rank) ==
    [num |-> score.num * (rrf_k + rank) + weight * score.den,
     den |-> score.den * (rrf_k + rank)]

\* Fused scores are kept as exact fractions [num, den] of a tenth, the
\* weights being tenths: rrf_score += weight / (k + rank + 1).
RRFAdd(score, weight, rank) ==
    [num |-> score.num * (rrf_k + rank + 1) + weight * score.den,
     den |-> score.den * (rrf_k + rank + 1)]

RRFLess(a, b) == a.num * b.den < b.num * a.den

\* A variant of KeyIndex that never finds the key.
KeyIndexAbsent(entries, chunk_key) == 0

\* The position of chunk_key among the entries of rrf_scores, 0 if absent.
KeyIndex(entries, chunk_key) ==
    IF \E i \in 1..Len(entries) : entries[i].chunk.chunk_id = chunk_key
    THEN CHOOSE i \in 1..Len(entries) : entries[i].chunk.chunk_id = chunk_key
    ELSE 0

\* "Process vector results": rrf_scores after vector_results[rank+1..],
\* weight being the call's vector_weight.
RECURSIVE FuseVector(_, _, _, _)
FuseVector(entries, vector_results, rank, weight) ==
    IF rank >= Len(vector_results) THEN entries
    ELSE LET r == vector_results[rank + 1]
             at == KeyIndex(entries, r.chunk.chunk_id)
             e == IF at = 0
                  THEN [chunk |-> r.chunk, vector_score |-> r.score,
                        bm25_score |-> 0, rrf_score |-> [num |-> 0, den |-> 1]]
                  ELSE entries[at]
             e2 == [e EXCEPT !.rrf_score = RRFAdd(@, weight, rank),
                             !.vector_score = r.score]
         IN  FuseVector(IF at = 0 THEN Append(entries, e2)
                        ELSE [entries EXCEPT ![at] = e2],
                        vector_results, rank + 1, weight)

\* "Process BM25 results": rrf_scores after bm25_results[rank+1..], weight
\* being the call's bm25_weight.
RECURSIVE FuseBM25(_, _, _, _)
FuseBM25(entries, bm25_results, rank, weight) ==
    IF rank >= Len(bm25_results) THEN entries
    ELSE LET r == bm25_results[rank + 1]
             at == KeyIndex(entries, r.chunk.chunk_id)
             e == IF at = 0
                  THEN [chunk |-> r.chunk, vector_score |-> 0,
                        bm25_score |-> r.score, rrf_score |-> [num |-> 0, den |-> 1]]
                  ELSE entries[at]
             e2 == [e EXCEPT !.rrf_score = RRFAdd(@, weight, rank),
                             !.bm25_score = r.score]
         IN  FuseBM25(IF at = 0 THEN Append(entries, e2)
                      ELSE [entries EXCEPT ![at] = e2],
                      bm25_results, rank + 1, weight)

\* A variant of Round4Score that returns the score as it is.
KeepScore(x) == x

\* round(x, 4) of a raw score.  The scores of a ranking are counted in
\* hundred-thousandths, so the result is the nearest multiple of 10, the
\* even one of two that are equally near.
Round4Score(x) ==
    LET q == x \div 10
        r == x % 10
    IN  IF r < 5 THEN 10 * q
        ELSE IF r > 5 THEN 10 * (q + 1)
        ELSE IF q % 2 = 0 THEN 10 * q ELSE 10 * (q + 1)

\* round(x, 4) of the fraction x, in ten-thousandths.
Round4(x) == (2000 * x.num + x.den) \div (2 * x.den)

\* x inserted into s, which is descending by rrf_score, after the entries
\* whose score is not smaller.
RECURSIVE InsertByScore(_, _)
InsertByScore(s, x) ==
    IF s = << >> THEN << x >>
    ELSE IF RRFLess(Head(s).rrf_score, x.rrf_score) THEN << x >> \o s
         ELSE << Head(s) >> \o InsertByScore(Tail(s), x)

\* sorted(..., key = rrf_score, reverse = True): descending, and stable.
RECURSIVE SortByScore(_)
SortByScore(s) ==
    IF s = << >> THEN << >>
    ELSE InsertByScore(SortByScore(SubSeq(s, 1, Len(s) - 1)), s[Len(s)])

\* The weights of a call of search_hybrid, in tenths, and its defaults.
DefaultWeights == [vector |-> vector_weight, bm25 |-> bm25_weight]

\* The values of rrf_scores, in insertion order, once search_hybrid has
\* processed the vector results and then the BM25 results.
RRFScores(vector_results, bm25_results, weights) ==
    FuseBM25(FuseVector(<< >>, vector_results, 0, weights.vector),
             bm25_results, 0, weights.bm25)

\* The fusion, sort and formatting of search_hybrid, given the two rankings
\* and the call's weights.
Fuse(vector_results, bm25_results, top_k, weights) ==
    LET rrf_scores == RRFScores(vector_results, bm25_results, weights)
        ordered == SortByScore(rrf_scores)
        sorted_results == SubSeq(ordered, 1, Min(top_k, Len(ordered)))
    IN  [i \in 1..Len(sorted_results) |->
            [text |-> sorted_results[i].chunk.text,
             page_num |-> sorted_results[i].chunk.page_num,
             chunk_id |-> sorted_results[i].chunk.chunk_id,
             citation |-> sorted_results[i].chunk.citation,
             vector_score |-> Round4Score(sorted_results[i].vector_score),
             bm25_score |-> Round4Score(sorted_results[i].bm25_score),
             combined_score |-> Round4(sorted_results[i].rrf_score)]]

\* TextChunker.__init__ and its defaults; tokenizer tells whether tiktoken's
\* encoding could be loaded.
default_chunk_size == 500
default_chunk_overlap == 100
default_min_chunk_size == 50

TextChunker(chunk_size, chunk_overlap, min_chunk_size, tokenizer) ==
    [chunk_size |-> chunk_size, chunk_overlap |-> chunk_overlap,
     min_chunk_size |-> min_chunk_size, tokenizer |-> tokenizer]

\* create_chunks
create_chunks(pages, chunk_size, chunk_overlap, tokenizer) ==
    chunk_pages(TextChunker(chunk_size, chunk_overlap, default_min_chunk_size,
                            tokenizer), pages)

\* The upload handler's arguments to create_chunks.
upload_chunk_size == 500
upload_chunk_overlap == 100

\* upload: file.filename[:20] + '...' for a name of more than 20 characters.
short_name_len == 20
ShortName(filename) ==
    IF Len(filename) > short_name_len
    THEN SubSeq(filename, 1, short_name_len) \o << ".", ".", "." >>
    ELSE filename

\* upload: f"[{short_name}:p{page_num}:c{chunk_id}]"
FileCitation(short_name, page_num, chunk_id) ==
    << "[" >> \o short_name \o << ":", "p" >> \o Str(page_num)
        \o << ":", "c" >> \o Str(chunk_id) \o << "]" >>

\* upload, the body of the loop over pdf_files for one file: its chunks,
\* with the file's name in their citations when several files came.
FileChunks(file, several, tokenizer) ==
    LET file_chunks == create_chunks(file.pages, upload_chunk_size,
                                     upload_chunk_overlap, tokenizer)
    IN  IF several
        THEN [i \in 1..Len(file_chunks) |->
                [chunk_id |-> file_chunks[i].chunk_id,
                 page_num |-> file_chunks[i].page_num,
                 text |-> file_chunks[i].text,
                 token_count |-> file_chunks[i].token_count,
                 source_file |-> file.filename,
                 citation |-> FileCitation(ShortName(file.filename),
                                           file_chunks[i].page_num,
                                           file_chunks[i].chunk_id)]]
        ELSE file_chunks

\* upload, the loop over pdf_files from file f on.
RECURSIVE ExtendChunks(_, _, _, _)
ExtendChunks(pdf_files, f, tokenizer, acc) ==
    IF f > Len(pdf_files) THEN acc
    ELSE ExtendChunks(pdf_files, f + 1, tokenizer,
             acc \o FileChunks(pdf_files[f], Len(pdf_files) > 1, tokenizer))

\* upload: the corpus handed to index_chunks, the chunk ids renumbered over
\* all files.
UploadChunks(pdf_files, tokenizer) ==
    LET merged == ExtendChunks(pdf_files, 1, tokenizer, << >>)
    IN  [i \in 1..Len(merged) |-> [merged[i] EXCEPT !.chunk_id = i - 1]]

\* ------------------------------------------------------------------ state
VARIABLES
    ops,               \* index-changing calls begun so far
    store,             \* the persisted collection "document_chunks"
    collection,        \* self.collection
    chunks,            \* self.chunks
    tokenized_corpus,  \* self.tokenized_corpus
    bm25,              \* self.bm25
    indexed,           \* bot['indexed'] / RAGChatbot.is_indexed
    wpc,               \* where the indexing thread stands in index_chunks
    wcall,             \* the arguments of the running index_chunks call
    wi,                \* the loop variable i of the add loop
    wres,              \* how the last index_chunks call ended
    wprior,            \* history: the complete index that call began with
    rpc,               \* where the query thread stands in search_hybrid
    rcall,             \* the arguments of the running search_hybrid call
    rvec,              \* its local vector_results
    rres,              \* how the last query ended: [kind, err, n]
    rmode,             \* history: what indexing the query overlapped with
    chunker,           \* a TextChunker: chunk_size, chunk_overlap,
                       \* min_chunk_size, and whether it has a tokenizer
    pages_data,        \* the pages handed to chunk_pages
    files,             \* the PDF files of an upload request
    cpc,               \* which call is to run: chunk_pages, upload, or none
    all_chunks,        \* what chunk_pages returned / upload handed to index_chunks
    kpc,               \* which ranking call is to run or has run, if any
    kcall,             \* its arguments
    kres,              \* what it returned
    max_history_turns, \* ConversationalAgent.max_history_turns
    conversation_history, \* ConversationalAgent.conversation_history
    all_turns,         \* history: every turn appended since the last clearing
    asks               \* ask calls begun so far

vars ==
    << ops, store, collection, chunks, tokenized_corpus, bm25, indexed,
       wpc, wcall, wi, wres, wprior, rpc, rcall, rvec, rres, rmode,
       chunker, pages_data, files, cpc, all_chunks, kpc, kcall, kres,
       max_history_turns, conversation_history, all_turns, asks >>

indexVars == << store, collection, chunks, tokenized_corpus, bm25 >>
writerVars == << ops, indexed, wpc, wcall, wi, wres, wprior >>
readerVars == << rpc, rcall, rvec, rres, rmode >>
chunkerVars == << chunker, pages_data, files, cpc, all_chunks >>
rankVars == << kpc, kcall, kres >>
agentVars == << max_history_turns, conversation_history, all_turns, asks >>

\* The top_k values, queries and chat messages the model draws from.
TopKs == {1, 2}
Queries == { << >>, <<"?">>, <<"a">>, <<"b">> }
ChatMessages == { <<" ">>, <<"?">>, <<" ", "a">> }

\* A corpus as chunk_pages numbers it: ids from 0, in order.
MakeCorpus(texts) ==
    [i \in 1..Len(texts) |->
        [chunk_id |-> i - 1,
         page_num |-> i,
         text |-> texts[i],
         token_count |-> Len(SplitWhitespace(texts[i])),
         citation |-> PageCitation(i, i - 1)]]

\* The corpora index_chunks is called with: up to MaxChunks chunks, the
\* first k reading "a" and the others "B.".
Corpora ==
    { MakeCorpus([i \in 1..n |-> IF i <= k THEN << "a" >> ELSE << "B", "." >>]) :
        n \in 0..MaxChunks, k \in 0..MaxChunks }

\* app.py: the top_k the chat handler passes to agent.ask.
chat_top_k == 5

\* A query's end: nothing yet, an exception, or a list of results.
NoResult == [kind |-> "none", err |-> "", n |-> 0]
Raised(e) == [kind |-> "error", err |-> e, n |-> 0]

NoCall == [chunks |-> << >>, force |-> FALSE]
NoPrior == [complete |-> FALSE, corpus |-> << >>]
NoQuery == [query |-> << >>, top_k |-> 1]

\* The BM25 index BM25Okapi builds for corpus c.
BM25Of(c) == [built |-> TRUE, corpus |-> [i \in 1..Len(c) |-> tokenize(c[i].text)]]

\* The retriever holds the complete index of corpus c: the collection is
\* live and holds exactly c's items, and the chunk list and BM25 index are c's.
CompleteFor(c) ==
    /\ c # << >>
    /\ chunks = c
    /\ collection = LiveCollection
    /\ bm25 = BM25Of(c)
    /\ store = [exists |-> TRUE, items |-> PrepareItems(c)]

\* The permutations of 1..n: the orders collection.get may list n items in.
Perms(n) == { f \in [1..n -> 1..n] : \A i, j \in 1..n : f[i] = f[j] => i = j }

\* search_hybrid from the return of search_vector on: search_bm25 on the
\* BM25 index b and chunk list cs, then the fusion: [kind, err, items].
HybridAfterVector(vector_results, b, cs, query, top_k) ==
    IF vector_results.err # ""
    THEN [kind |-> "error", err |-> vector_results.err, items |-> << >>]
    ELSE LET bm25_results == search_bm25(b, cs, query, top_k * 2)
         IN  IF bm25_results.err # ""
             THEN [kind |-> "error", err |-> bm25_results.err, items |-> << >>]
             ELSE [kind |-> "results", err |-> "",
                   items |-> Fuse(vector_results.items, bm25_results.items, top_k,
                                  DefaultWeights)]

\* search_hybrid run from start to end on the index [st, col, cs, b].
HybridOutcome(st, col, cs, b, query, top_k) ==
    HybridAfterVector(search_vector(st, col, query, top_k * 2), b, cs, query, top_k)

\* What search_hybrid(query, top_k) gives on the retriever as it stands.
SearchNow(query, top_k) ==
    HybridOutcome(store, collection, chunks, bm25, query, top_k)

\* What search_hybrid(query, top_k) gives on the complete index of corpus c.
HybridOn(c, query, top_k) ==
    HybridOutcome([exists |-> TRUE, items |-> PrepareItems(c)], LiveCollection,
                  c, BM25Of(c), query, top_k)

Summary(out) == [kind |-> out.kind, err |-> out.err, n |-> Len(out.items)]

\* The retriever as __init__ leaves it, no collection persisted.
RetrieverInit ==
    /\ ops = 0
    /\ store = NoStore
    /\ collection = NoCollection
    /\ chunks = << >>
    /\ tokenized_corpus = << >>
    /\ bm25 = NoBM25
    /\ indexed = FALSE
    /\ wpc = "idle"
    /\ wcall = NoCall
    /\ wi = 0
    /\ wres = "none"
    /\ wprior = NoPrior
    /\ rpc = "idle"
    /\ rcall = NoQuery
    /\ rvec = << >>
    /\ rres = NoResult
    /\ rmode = "quiet"

\* No ranking call is to run.
NoRanking == kpc = "none" /\ kcall = << >> /\ kres = << >>

\* ConversationalAgent.__init__ with its defaults, and no call on the agent
\* to come.
default_max_history_turns == 10
NoAgent ==
    /\ max_history_turns = default_max_history_turns
    /\ conversation_history = << >>
    /\ all_turns = << >>
    /\ asks = 0

Init ==
    /\ RetrieverInit
    /\ NoRanking
    /\ NoAgent
    /\ chunker = TextChunker(default_chunk_size, default_chunk_overlap,
                             default_min_chunk_size, TRUE)
    /\ pages_data = << >>
    /\ files = << >>
    /\ cpc = "none"
    /\ all_chunks = << >>

\* The query thread as an index-changing call begins: a finished query has
\* handed over its answer and its record is dropped; a running one has now
\* overlapped with more than it started in.
QueryMeetsChange ==
    /\ rpc' = IF rpc = "done" THEN "idle" ELSE rpc
    /\ rcall' = IF rpc = "done" THEN NoQuery ELSE rcall
    /\ rres' = IF rpc = "done" THEN NoResult ELSE rres
    /\ rmode' = IF rpc \in {"vector", "bm25"} THEN "other" ELSE "quiet"
    /\ rvec' = rvec

\* index_chunks, lines 76-91: self.chunks is replaced, then the collection
\* is looked up.
IndexBegin(c, force) ==
    /\ wpc = "idle"
    /\ ops < MaxOps
    /\ ops' = ops + 1
    /\ chunks' = c
    /\ wcall' = [chunks |-> c, force |-> force]
    /\ wprior' = [complete |-> CompleteFor(chunks), corpus |-> chunks]
    /\ wres' = "none"
    /\ wi' = 0
    /\ wpc' = IF store.exists /\ ~force THEN "load"
              ELSE IF store.exists THEN "delete" ELSE "create"
    /\ QueryMeetsChange
    /\ UNCHANGED << store, collection, tokenized_corpus, bm25, indexed >>
    /\ UNCHANGED << chunkerVars, rankVars, agentVars >>

\* index_chunks, lines 82-88: the existing collection is loaded and the
\* in-memory structures rebuilt from it.
IndexLoad ==
    /\ wpc = "load"
    /\ collection' = LiveCollection
    /\ \E f \in Perms(Len(store.items)) :
          LET results == [i \in 1..Len(store.items) |-> store.items[f[i]]]
              r == rebuild_bm25_from_collection(results, chunks,
                                                tokenized_corpus, bm25)
          IN  /\ chunks' = r.chunks
              /\ tokenized_corpus' = r.tokenized_corpus
              /\ bm25' = r.bm25
              /\ wres' = IF r.raised THEN "raised" ELSE "ok"
              /\ indexed' = IF r.raised THEN indexed ELSE TRUE
    /\ wpc' = "idle"
    /\ UNCHANGED << ops, store, wcall, wi, wprior, readerVars >>
    /\ UNCHANGED << chunkerVars, rankVars, agentVars >>

\* index_chunks, line 92: delete_collection.
IndexDelete ==
    /\ wpc = "delete"
    /\ store' = NoStore
    /\ wpc' = "create"
    /\ UNCHANGED << ops, collection, chunks, tokenized_corpus, bm25, indexed,
                    wcall, wi, wres, wprior, readerVars >>
    /\ UNCHANGED << chunkerVars, rankVars, agentVars >>

\* index_chunks, lines 95-98: create_collection.
IndexCreate ==
    /\ wpc = "create"
    /\ store' = [exists |-> TRUE, items |-> << >>]
    /\ collection' = LiveCollection
    /\ wpc' = "embed"
    /\ UNCHANGED << ops, chunks, tokenized_corpus, bm25, indexed,
                    wcall, wi, wres, wprior, readerVars >>
    /\ UNCHANGED << chunkerVars, rankVars, agentVars >>

\* index_chunks, line 117: get_embeddings returns.
IndexEmbed ==
    /\ wpc = "embed"
    /\ wi' = 0
    /\ wpc' = IF Len(wcall.chunks) = 0 THEN "bm25" ELSE "add"
    /\ UNCHANGED << ops, indexVars, indexed, wcall, wres, wprior, readerVars >>
    /\ UNCHANGED << chunkerVars, rankVars, agentVars >>

\* index_chunks, line 117: the embedder raises (it is called only when there
\* is a text to embed); the exception leaves index_chunks.
IndexEmbedRaises ==
    /\ wpc = "embed"
    /\ Len(wcall.chunks) > 0
    /\ wres' = "raised"
    /\ wpc' = "idle"
    /\ UNCHANGED << ops, indexVars, indexed, wcall, wi, wprior, readerVars >>
    /\ UNCHANGED << chunkerVars, rankVars, agentVars >>

\* index_chunks, lines 121-128: one batch of the add loop.
IndexAdd ==
    /\ wpc = "add"
    /\ LET end_idx == Min(wi + batch_size, Len(wcall.chunks))
       IN  /\ store' = [store EXCEPT !.items =
                           @ \o SubSeq(PrepareItems(wcall.chunks), wi + 1, end_idx)]
           /\ wi' = wi + batch_size
           /\ wpc' = IF wi + batch_size < Len(wcall.chunks) THEN "add" ELSE "bm25"
    /\ UNCHANGED << ops, collection, chunks, tokenized_corpus, bm25, indexed,
                    wcall, wres, wprior, readerVars >>
    /\ UNCHANGED << chunkerVars, rankVars, agentVars >>

\* index_chunks, line 133: _build_bm25_index(texts), and the return to the
\* caller, which marks the document indexed when no exception arrived.
IndexBuildBM25 ==
    /\ wpc = "bm25"
    /\ LET b == build_bm25_index(
                    [i \in 1..Len(wcall.chunks) |-> wcall.chunks[i].text], bm25)
       IN  /\ tokenized_corpus' = b.tokenized_corpus
           /\ bm25' = b.bm25
           /\ wres' = IF b.raised THEN "raised" ELSE "ok"
           /\ indexed' = IF b.raised THEN indexed ELSE TRUE
    /\ wpc' = "idle"
    /\ UNCHANGED << ops, store, collection, chunks, wcall, wi, wprior, readerVars >>
    /\ UNCHANGED << chunkerVars, rankVars, agentVars >>

\* HybridRetriever.clear_index
clear_index ==
    /\ wpc = "idle"
    /\ ops < MaxOps
    /\ ops' = ops + 1
    /\ store' = NoStore
    /\ bm25' = NoBM25
    /\ chunks' = << >>
    /\ tokenized_corpus' = << >>
    /\ QueryMeetsChange
    /\ wcall' = NoCall /\ wprior' = NoPrior /\ wres' = "none"
    /\ UNCHANGED << collection, indexed, wpc, wi >>
    /\ UNCHANGED << chunkerVars, rankVars, agentVars >>

\* HybridRetriever.__init__ in a new process: the persisted store survives,
\* nothing in memory does.
Construct ==
    /\ wpc = "idle"
    /\ ops < MaxOps
    /\ ops' = ops + 1
    /\ collection' = NoCollection
    /\ chunks' = << >>
    /\ tokenized_corpus' = << >>
    /\ bm25' = NoBM25
    /\ indexed' = FALSE
    /\ wcall' = NoCall /\ wprior' = NoPrior /\ wres' = "none"
    /\ rpc' = "idle"
    /\ rcall' = NoQuery
    /\ rvec' = << >>
    /\ rres' = NoResult
    /\ rmode' = "quiet"
    /\ UNCHANGED << store, wpc, wi >>
    /\ UNCHANGED << chunkerVars, rankVars, agentVars >>

\* get_chatbot / check_existing_index: a collection with a non-zero count is
\* attached and the in-memory structures are rebuilt from it.
LoadExisting ==
    /\ wpc = "idle"
    /\ ~indexed
    /\ store.exists /\ Len(store.items) > 0
    /\ collection' = LiveCollection
    /\ \E f \in Perms(Len(store.items)) :
          LET results == [i \in 1..Len(store.items) |-> store.items[f[i]]]
              r == rebuild_bm25_from_collection(results, chunks,
                                                tokenized_corpus, bm25)
          IN  /\ chunks' = r.chunks
              /\ tokenized_corpus' = r.tokenized_corpus
              /\ bm25' = r.bm25
              /\ indexed' = ~r.raised
    /\ QueryMeetsChange
    /\ wcall' = NoCall /\ wprior' = NoPrior /\ wres' = "none"
    /\ UNCHANGED << ops, store, wpc, wi >>
    /\ UNCHANGED << chunkerVars, rankVars, agentVars >>

\* The steps of index_chunks after its first.
IndexStep ==
    \/ IndexLoad
    \/ IndexDelete
    \/ IndexCreate
    \/ IndexEmbed
    \/ IndexEmbedRaises
    \/ IndexAdd
    \/ IndexBuildBM25

\* ---- single-threaded use (main.py, test_acceptance.py): a query runs from
\* ---- start to end while no indexing call is under way.

\* HybridRetriever.search_hybrid
search_hybrid(query, top_k) ==
    /\ wpc = "idle"
    /\ rpc \in {"idle", "done"}
    /\ rcall' = [query |-> query, top_k |-> top_k]
    /\ rres' = Summary(SearchNow(query, top_k))
    /\ rpc' = "done"
    /\ rmode' = "quiet"
    /\ UNCHANGED << indexVars, writerVars, rvec >>
    /\ UNCHANGED << chunkerVars, rankVars, agentVars >>

\* search_hybrid when the embedder raises on the query (search_vector calls
\* it once self.collection was read).
search_hybrid_raises(query, top_k) ==
    /\ wpc = "idle"
    /\ rpc \in {"idle", "done"}
    /\ collection.set
    /\ rcall' = [query |-> query, top_k |-> top_k]
    /\ rres' = Raised("EmbeddingServiceError")
    /\ rpc' = "done"
    /\ rmode' = "quiet"
    /\ UNCHANGED << indexVars, writerVars, rvec >>
    /\ UNCHANGED << chunkerVars, rankVars, agentVars >>

Next ==
    \/ \E c \in Corpora, force \in BOOLEAN : IndexBegin(c, force)
    \/ IndexStep
    \/ clear_index
    \/ Construct
    \/ LoadExisting
    \/ \E q \in Queries, k \in TopKs : search_hybrid(q, k)
    \/ \E q \in Queries, k \in TopKs : search_hybrid_raises(q, k)

Spec == Init /\ [][Next]_vars

\* ---- app.py: the /chat and /upload handlers run in threads of one process
\* ---- and share one retriever, so a query's steps interleave with indexing.

\* A variant of ModeAtStart that takes every query for one that overlaps
\* with no index-changing call.
ModeAlwaysQuiet == "quiet"

\* What a query that starts now overlaps with.
ModeAtStart ==
    IF wpc = "idle" THEN "quiet"
    ELSE IF wcall.force /\ wprior.complete THEN "rebuild" ELSE "other"

\* search_hybrid is entered.
SearchBegin(query, top_k) ==
    /\ rpc \in {"idle", "done"}
    /\ rcall' = [query |-> query, top_k |-> top_k]
    /\ rvec' = << >>
    /\ rres' = NoResult
    /\ rpc' = "vector"
    /\ rmode' = ModeAtStart
    /\ UNCHANGED << indexVars, writerVars >>
    /\ UNCHANGED << chunkerVars, rankVars, agentVars >>

\* The /chat handler up to agent.ask: an empty message and a missing index
\* are answered with an error, anything else is searched for.
chat(message) ==
    /\ rpc \in {"idle", "done"}
    /\ rvec' = << >>
    /\ rmode' = ModeAtStart
    /\ IF Strip(message) = << >>
       THEN /\ rres' = Raised("Empty message")
            /\ rpc' = "done"
            /\ rcall' = NoQuery
       ELSE IF ~indexed
            THEN /\ rres' = Raised("No document indexed")
                 /\ rpc' = "done"
                 /\ rcall' = NoQuery
            ELSE /\ rres' = NoResult
                 /\ rpc' = "vector"
                 /\ rcall' = [query |-> Strip(message), top_k |-> chat_top_k]
    /\ UNCHANGED << indexVars, writerVars >>
    /\ UNCHANGED << chunkerVars, rankVars, agentVars >>

\* search_hybrid, line 261: search_vector.
SearchVector ==
    /\ rpc = "vector"
    /\ LET v == search_vector(store, collection, rcall.query, rcall.top_k * 2)
       IN  IF v.err # ""
           THEN /\ rres' = Raised(v.err)
                /\ rpc' = "done"
                /\ rvec' = rvec
           ELSE /\ rvec' = v.items
                /\ rpc' = "bm25"
                /\ rres' = rres
    /\ UNCHANGED << indexVars, writerVars, rcall, rmode >>
    /\ UNCHANGED << chunkerVars, rankVars, agentVars >>

\* search_hybrid, line 261: the embedder raises on the query.
SearchEmbedRaises ==
    /\ rpc = "vector"
    /\ collection.set
    /\ rres' = Raised("EmbeddingServiceError")
    /\ rpc' = "done"
    /\ UNCHANGED << indexVars, writerVars, rcall, rvec, rmode >>
    /\ UNCHANGED << chunkerVars, rankVars, agentVars >>

\* search_hybrid, lines 262-316: search_bm25, then the fusion.
SearchBM25 ==
    /\ rpc = "bm25"
    /\ rres' = Summary(HybridAfterVector([err |-> "", items |-> rvec], bm25, chunks,
                                         rcall.query, rcall.top_k))
    /\ rvec' = << >>
    /\ rpc' = "done"
    /\ UNCHANGED << indexVars, writerVars, rcall, rmode >>
    /\ UNCHANGED << chunkerVars, rankVars, agentVars >>

NextThreaded ==
    \/ \E c \in Corpora, force \in BOOLEAN : IndexBegin(c, force)
    \/ IndexStep
    \/ Construct
    \/ LoadExisting
    \/ \E q \in Queries, k \in TopKs : SearchBegin(q, k)
    \/ \E m \in ChatMessages : chat(m)
    \/ SearchVector
    \/ SearchEmbedRaises
    \/ SearchBM25

SpecThreaded == Init /\ [][NextThreaded]_vars

\* ---- chunker.py and the upload handler's merge, as functions of their
\* ---- inputs: a call's arguments are drawn at the start and the call runs.

\* s repeated n times.
RECURSIVE Repeat(_, _)
Repeat(s, n) == IF n = 0 THEN << >> ELSE s \o Repeat(s, n - 1)

\* Page texts: none, blank, a short sentence, four short sentences, three
\* sentences, and one sentence of two clauses.
PageTexts ==
    { << >>,
      << " ", " " >>,
      << "a", "." >>,
      << "a", ".", " ", "b", ".", " ", "c", ".", " ", "d", "." >>,
      << "a", "a", " ", "b", "b", ".", " ", "c", ".", " ", "d", "d", " ", "e", "e", "." >>,
      << "w", " ", "w", " ", "w", ",", " ", "x", " ", "x", " ", "x", "." >> }

\* Page texts for the defaults of create_chunks: one below the minimum and
\* one of 13 sentences, above it.
UploadPageTexts == { << "a", "." >>, Strip(Repeat(<< "a", "b", ".", " " >>, 13)) }

\* extract_text_from_pdf: the pages of a document, numbered from 1.
PagesOf(texts) == [i \in 1..Len(texts) |-> [page_num |-> i, text |-> texts[i]]]

SeqsUpTo(S, n) == UNION { [1..k -> S] : k \in 0..n }

Chunkers ==
    { TextChunker(cs, co, mc, tk) :
        cs \in {2, 3}, co \in {0, 1, 2}, mc \in {0, 1, 3}, tk \in BOOLEAN }

\* The files of an upload: names of at most 20 characters and of more.
PdfFiles ==
    { [filename |-> n, pages |-> PagesOf(t)] :
        n \in { << "a", ".", "p", "d", "f" >>,
                 Repeat(<< "r", "e", "p", "o", "r", "t", "_" >>, 3)
                     \o << ".", "p", "d", "f" >> },
        t \in SeqsUpTo(UploadPageTexts, MaxPages) }

InitChunker ==
    /\ RetrieverInit
    /\ NoRanking
    /\ NoAgent
    /\ all_chunks = << >>
    /\ \/ /\ cpc = "chunk_pages"
          /\ chunker \in Chunkers
          /\ pages_data \in { PagesOf(t) : t \in SeqsUpTo(PageTexts, MaxPages) }
          /\ files = << >>
       \/ /\ cpc = "upload"
          /\ chunker \in { TextChunker(upload_chunk_size, upload_chunk_overlap,
                                        default_min_chunk_size, tk) : tk \in BOOLEAN }
          /\ pages_data = << >>
          /\ files \in SeqsUpTo(PdfFiles, MaxFiles) \ { << >> }

\* A call of chunker.chunk_pages(pages_data).
ChunkPages ==
    /\ cpc = "chunk_pages"
    /\ all_chunks' = chunk_pages(chunker, pages_data)
    /\ cpc' = "chunked"
    /\ UNCHANGED << chunker, pages_data, files >>
    /\ UNCHANGED << indexVars, writerVars, readerVars, rankVars, agentVars >>

\* The upload handler from the loop over pdf_files to the call of
\* index_chunks(all_chunks, force_reindex=True).
upload ==
    /\ cpc = "upload"
    /\ all_chunks' = UploadChunks(files, chunker.tokenizer)
    /\ cpc' = "handed"
    /\ UNCHANGED << chunker, pages_data, files >>
    /\ UNCHANGED << indexVars, writerVars, readerVars, rankVars, agentVars >>

SpecChunker == InitChunker /\ [][ChunkPages \/ upload]_vars

\* ---- search_bm25 on a built index, as a function of the index and of the
\* ---- call's arguments, drawn at the start.

\* The retriever once index_chunks(c, force_reindex=True) has returned on a
\* new retriever without a persisted collection.
BuiltIndex(c) ==
    /\ store = [exists |-> TRUE, items |-> PrepareItems(c)]
    /\ collection = LiveCollection
    /\ chunks = c
    /\ tokenized_corpus = BM25Of(c).corpus
    /\ bm25 = BM25Of(c)
    /\ indexed = TRUE
    /\ ops = 1
    /\ wpc = "idle"
    /\ wcall = [chunks |-> c, force |-> TRUE]
    /\ wi = 0
    /\ wres = "ok"
    /\ wprior = NoPrior
    /\ rpc = "idle"
    /\ rcall = NoQuery
    /\ rvec = << >>
    /\ rres = NoResult
    /\ rmode = "quiet"

\* No chunker call is to run.
NoChunking ==
    /\ chunker = TextChunker(default_chunk_size, default_chunk_overlap,
                             default_min_chunk_size, TRUE)
    /\ pages_data = << >>
    /\ files = << >>
    /\ cpc = "none"
    /\ all_chunks = << >>

\* Chunk texts, queries and top_k values for the lexical search: a query
\* can match several chunks, one of them twice, or none.
RankTopKs == {1, 2, 4}

InitLexical ==
    /\ \E t \in SeqsUpTo({ << "a" >>, << "b" >>, << "c" >>, << "a", " ", "b" >> },
                          MaxChunks) \ { << >> } :
          BuiltIndex(MakeCorpus(t))
    /\ NoChunking
    /\ NoAgent
    /\ kpc = "search_bm25"
    /\ kcall \in [query : { << "a" >>, << "a", " ", "b" >>,
                            << "a", " ", "a", " ", "b" >>, << "c" >>, << "?" >> },
                  top_k : RankTopKs]
    /\ kres = << >>

\* HybridRetriever.search_bm25(query, top_k) on the index as it stands.
SearchLexical ==
    /\ kpc = "search_bm25"
    /\ kres' = search_bm25(bm25, chunks, kcall.query, kcall.top_k)
    /\ kpc' = "searched"
    /\ UNCHANGED << kcall, indexVars, writerVars, readerVars, chunkerVars, agentVars >>

SpecLexical == InitLexical /\ [][SearchLexical]_vars

\* The part of a chunk search_bm25 and search_vector return.
ChunkView(c) ==
    [text |-> c.text, page_num |-> c.page_num, chunk_id |-> c.chunk_id,
     citation |-> c.citation]

\* ---- the fusion of search_hybrid (from "Combine using RRF" to the return),
\* ---- as a function of the two rankings, top_k and the weights.

\* The chunks the rankings are drawn from: one more than a ranking holds.
RankedCorpus == MakeCorpus([i \in 1..MaxRanked + 1 |-> << "a" >>])

\* The rankings of at most n entries a search can return: chunks of the
\* corpus, none twice, with scores that do not rise (0.12346 for the last
\* entry, twice that for the one before, and so on).
Rankings(n) ==
    { [i \in 1..Len(f) |->
          [chunk |-> ChunkView(RankedCorpus[f[i]]),
           score |-> 12346 * (Len(f) - i + 1)]] :
        f \in { g \in SeqsUpTo(1..Len(RankedCorpus), n) :
                   \A i, j \in 1..Len(g) : g[i] = g[j] => i = j } }

\* The weights of a call are the defaults or 0.5 and 0.5, in tenths.
InitFusion ==
    /\ BuiltIndex(RankedCorpus)
    /\ NoChunking
    /\ NoAgent
    /\ kpc = "fuse"
    /\ \E top_k \in RankTopKs, w \in { DefaultWeights, [vector |-> 5, bm25 |-> 5] } :
          \E v, b \in Rankings(Min(top_k * 2, MaxRanked)) :
              kcall = [vector_results |-> v, bm25_results |-> b,
                       top_k |-> top_k, weights |-> w]
    /\ kres = << >>

\* search_hybrid from k = 60 to its return: rrf_scores as the two loops
\* leave it, and final_results.
FuseRankings ==
    /\ kpc = "fuse"
    /\ kres' = [rrf_scores |-> RRFScores(kcall.vector_results, kcall.bm25_results,
                                         kcall.weights),
                final_results |-> Fuse(kcall.vector_results, kcall.bm25_results,
                                       kcall.top_k, kcall.weights)]
    /\ kpc' = "fused"
    /\ UNCHANGED << kcall, indexVars, writerVars, readerVars, chunkerVars, agentVars >>

SpecFusion == InitFusion /\ [][FuseRankings]_vars

\* ---- chat_agent.py: ConversationalAgent over one conversation. What the
\* ---- language model writes and what search_hybrid returns for the
\* ---- reformulated query are inputs of ask.

\* Most ask calls in one behaviour.
MaxAsks == 3

\* "not found in the document"
NotFoundPhrase ==
    << "n", "o", "t", " ", "f", "o", "u", "n", "d", " ", "i", "n", " ",
       "t", "h", "e", " ", "d", "o", "c", "u", "m", "e", "n", "t" >>

\* "**Answer:** Not found in the document."
NotFoundAnswer ==
    << "*", "*", "A", "n", "s", "w", "e", "r", ":", "*", "*", " ", "N" >>
        \o Tail(NotFoundPhrase) \o << "." >>

\* sub in s
Contains(s, sub) ==
    \E i \in 0..(Len(s) - Len(sub)) : SubSeq(s, i + 1, i + Len(sub)) = sub

\* _validate_answer, line 161.
has_citations(answer) ==
    Contains(answer, << "[", "p" >>) \/ Contains(answer, << "[", "c" >>)

\* A variant of _validate_answer that returns the answer as the language
\* model wrote it.
AnswerAsWritten(answer, retrieved_chunks) == answer

\* ConversationalAgent._validate_answer(answer, retrieved_chunks).
validate_answer(answer, retrieved_chunks) ==
    IF retrieved_chunks = << >> THEN NotFoundAnswer
    ELSE IF Contains(Lower(answer), NotFoundPhrase) THEN answer
    ELSE IF ~has_citations(answer)
         THEN LET first == SubSeq(retrieved_chunks, 1, Min(3, Len(retrieved_chunks)))
                  available_citations == [i \in 1..Len(first) |-> first[i].citation]
              IN  answer \o << "\n", "\n", "*", "S", "o", "u", "r", "c", "e", "s", ":", " " >>
                         \o Join(available_citations, << ",", " " >>) \o << "*" >>
         ELSE answer

\* generate_answer, lines 133-138: the model's message content, stripped
\* and validated.
generate_answer(content, retrieved_chunks) ==
    validate_answer(Strip(content), retrieved_chunks)

\* ask, lines 206-207: history[-max_turns:] when the history is longer
\* than max_turns; a slice from -0 is the whole list.
TrimHistory(history, max_turns) ==
    IF Len(history) > max_turns
    THEN IF max_turns = 0 THEN history
         ELSE SubSeq(history, Len(history) - max_turns + 1, Len(history))
    ELSE history

\* What search_hybrid hands to ask: nothing, a chunk of one document, chunks
\* of two uploaded files, and more chunks than the three that are cited.
RetrievedLists ==
    LET one(id, cit) == [chunk_id |-> id, citation |-> cit]
        a == << "a", ".", "p", "d", "f" >>
        b == << "b", ".", "p", "d", "f" >>
    IN  { << >>,
          << one(0, PageCitation(1, 0)) >>,
          << one(1, FileCitation(ShortName(b), 1, 1)),
             one(0, FileCitation(ShortName(a), 1, 0)) >>,
          << one(3, PageCitation(2, 3)), one(0, PageCitation(1, 0)),
             one(2, PageCitation(2, 2)), one(1, PageCitation(1, 1)) >> }

\* What the language model writes: that nothing was found, an answer with
\* a page citation, one with no citation, one with a chunk marker only.
Contents ==
    { << "N" >> \o Tail(NotFoundPhrase) \o << "." >>,
      << "x", " ", "[", "p", "1", ":", "c", "0", "]" >>,
      << " ", "x", "\n" >>,
      << "x", " ", "[", "c", "0", "]" >> }

InitAgent ==
    /\ BuiltIndex(RankedCorpus)
    /\ NoChunking
    /\ kpc = "agent"
    /\ kcall = << >>
    /\ kres = << >>
    /\ max_history_turns \in {0, 1, 2}
    /\ conversation_history = << >>
    /\ all_turns = << >>
    /\ asks = 0

\* ConversationalAgent.ask(query) returning normally.
ask(query, retrieved_chunks, content) ==
    /\ kpc \in {"agent", "asked", "raised", "cleared"}
    /\ asks < MaxAsks
    /\ asks' = asks + 1
    /\ LET answer == generate_answer(content, retrieved_chunks)
           turn == [user |-> query, assistant |-> answer,
                    retrieved_chunks |-> retrieved_chunks]
       IN  /\ conversation_history' =
                  TrimHistory(Append(conversation_history, turn), max_history_turns)
           /\ all_turns' = Append(all_turns, turn)
           /\ kres' = [answer |-> answer, retrieved_chunks |-> retrieved_chunks]
    /\ kcall' = [query |-> query, content |-> content]
    /\ kpc' = "asked"
    /\ UNCHANGED << max_history_turns, indexVars, writerVars, readerVars, chunkerVars >>

\* ask raising: in reformulate_query, which calls the language model only
\* when there is history, in search_hybrid, or in generate_answer.
AskRaises(query, stage) ==
    /\ kpc \in {"agent", "asked", "raised", "cleared"}
    /\ asks < MaxAsks
    /\ stage = "reformulation" => conversation_history # << >>
    /\ asks' = asks + 1
    /\ kcall' = [query |-> query, content |-> << >>]
    /\ kres' = [raised |-> stage]
    /\ kpc' = "raised"
    /\ UNCHANGED << max_history_turns, conversation_history, all_turns,
                    indexVars, writerVars, readerVars, chunkerVars >>

\* ConversationalAgent.clear_history().
clear_history ==
    /\ kpc \in {"asked", "raised"}
    /\ conversation_history' = << >>
    /\ all_turns' = << >>
    /\ kcall' = << >>
    /\ kres' = << >>
    /\ kpc' = "cleared"
    /\ UNCHANGED << max_history_turns, asks, indexVars, writerVars, readerVars,
                    chunkerVars >>

SpecAgent ==
    /\ InitAgent
    /\ [][  \/ \E q \in { << "a" >>, << "b" >> }, r \in RetrievedLists, c \in Contents :
                 ask(q, r, c)
            \/ \E q \in { << "a" >>, << "b" >> },
                  stage \in {"reformulation", "retrieval", "generation"} :
                 AskRaises(q, stage)
            \/ clear_history ]_vars

\* ---- index_chunks indexing corpora of one batch, of several, and of none.

\* Longest corpus indexed batch by batch.
MaxTexts == 201

\* index_chunks with force_reindex, which takes the indexing path, called
\* with corpora of 0 to MaxTexts chunks whose texts differ from one another.
SpecBatches ==
    /\ Init
    /\ [][  \/ \E n \in {0, 1, batch_size, batch_size + 1, 2 * batch_size, MaxTexts} :
                 IndexBegin(MakeCorpus([i \in 1..n |-> Str(i)]), TRUE)
            \/ IndexDelete
            \/ IndexCreate
            \/ IndexEmbed
            \/ IndexEmbedRaises
            \/ IndexAdd
            \/ IndexBuildBM25 ]_vars

\* ------------------------------------------------------------------ claims

\* The index is Empty: no persisted collection and nothing in memory.
IndexEmpty == ~store.exists /\ ~bm25.built /\ chunks = << >>

\* The chunk the store's item holds.
ChunkOfItem(item) ==
    [chunk_id |-> item.metadata.chunk_id,
     page_num |-> item.metadata.page_num,
     text |-> item.document,
     citation |-> item.metadata.citation,
     token_count |-> item.metadata.token_count]

\* cs is what the items reconstruct to: the items' chunks, each once, in
\* ascending chunk_id order.
ReconstructedFrom(cs, items) ==
    /\ Len(cs) = Len(items)
    /\ \A i \in 1..Len(cs) : \E j \in 1..Len(items) : cs[i] = ChunkOfItem(items[j])
    /\ \A i \in 1..Len(cs) - 1 : cs[i].chunk_id < cs[i + 1].chunk_id

\* C1: when index_chunks(new_chunks, force_reindex=True) on a retriever that
\* holds a complete index fails partway, the prior index is intact
\* afterwards: the collection holds the prior chunks, the chunk list and
\* BM25 index are the prior ones, and search_hybrid answers as before.
C1_FailedReindexKeepsPriorIndex ==
    (wpc = "idle" /\ wres = "raised" /\ wcall.force /\ wprior.complete)
        => /\ CompleteFor(wprior.corpus)
           /\ \A q \in Queries, k \in TopKs :
                 SearchNow(q, k) = HybridOn(wprior.corpus, q, k)

\* C2: a search_hybrid that interleaves with a running
\* index_chunks(force_reindex=True) answers from the complete prior index or
\* from the complete next one: it meets no deleted collection, reads no
\* chunk list past the BM25 index's end, and what it is about to return is
\* what the prior or the next index would return.
C2_QuerySeesPriorOrNextIndex ==
    (rmode = "rebuild" /\ wcall.chunks # << >> /\ wres # "raised")
        => /\ rpc = "done" => rres.err \notin {"CollectionNotFound", "IndexError"}
           /\ rpc = "bm25" =>
                 LET out == HybridAfterVector([err |-> "", items |-> rvec], bm25,
                                              chunks, rcall.query, rcall.top_k)
                 IN  \/ out = HybridOn(wprior.corpus, rcall.query, rcall.top_k)
                     \/ out = HybridOn(wcall.chunks, rcall.query, rcall.top_k)

\* C3: index_chunks(chunks, force_reindex=False) on an existing collection
\* with at least one item leaves the collection unchanged and returns with
\* the chunk list and BM25 index reconstructed from the collection, not
\* with the chunks it was passed.
C3_NoForceOnExistingIsNoOp ==
    [][ /\ (wpc = "idle" /\ wpc' = "load") => store' = store
        /\ (wpc = "load" /\ Len(store.items) > 0)
              => /\ store' = store
                 /\ wpc' = "idle" /\ wres' = "ok"
                 /\ ReconstructedFrom(chunks', store.items)
                 /\ bm25' = BM25Of(chunks')
                 /\ tokenized_corpus' = bm25'.corpus ]_vars

\* C3's case: the call returned and the chunks it was passed are not the
\* ones in memory.
C3_Witness ==
    /\ wpc = "idle" /\ wres = "ok" /\ ~wcall.force
    /\ wcall.chunks # << >>
    /\ wcall.chunks # chunks
    /\ Len(chunks) >= 2
    /\ ReconstructedFrom(chunks, store.items)

\* C4: a fresh retriever that finds the collection a successful
\* index_chunks(C, force_reindex=True) left, with a non-zero count, and runs
\* _rebuild_bm25_from_collection ends with the chunk list C (chunk_id,
\* page_num, text, citation and token_count, in ascending chunk_id order) and
\* with BM25 corpus position i the tokenization of chunk i's text.
C4_RoundTripThroughStore ==
    [][ (wpc = "idle" /\ ~indexed /\ indexed')
            => \E c \in Corpora :
                  /\ store.items = PrepareItems(c)
                  /\ chunks' = c
                  /\ \A i \in 1..Len(c) - 1 : chunks'[i].chunk_id < chunks'[i + 1].chunk_id
                  /\ bm25'.built
                  /\ Len(bm25'.corpus) = Len(c)
                  /\ \A i \in 1..Len(c) : bm25'.corpus[i] = tokenize(c[i].text)
                  /\ tokenized_corpus' = bm25'.corpus ]_vars

\* C4's case: a retriever constructed anew has rebuilt a corpus of several
\* chunks from the collection.
C4_Witness ==
    /\ wpc = "idle" /\ indexed /\ wcall = NoCall /\ ops >= 2
    /\ Len(chunks) >= 2
    /\ store.items = PrepareItems(chunks)

C6_ZeroChunksLeavesIndex ==
    (wcall.force /\ wcall.chunks = << >> /\ wprior.complete)
        => /\ store = [exists |-> TRUE, items |-> PrepareItems(wprior.corpus)]
           /\ chunks = wprior.corpus
           /\ bm25 = BM25Of(wprior.corpus)

\* C7: a search_hybrid whose query has no word token ends, on a complete
\* index too, in a QueryError, its sub-rankers not having run.
C7_EmptyQueryRejected ==
    (rpc = "done" /\ tokenize(rcall.query) = << >> /\ CompleteFor(chunks))
        => rres.err = "QueryError"

\* C8: the chunks chunk_pages returns carry the chunk_ids 0, 1, ..., N-1 in
\* output order, across page boundaries and whatever the minimum-size
\* filter dropped.
C8_ChunkIdsContiguous ==
    cpc = "chunked" => \A i \in 1..Len(all_chunks) : all_chunks[i].chunk_id = i - 1

\* C8's case: chunks of two pages were returned, and the filter dropped a
\* piece of a page that was not skipped.
C8_Witness ==
    /\ cpc = "chunked"
    /\ Len(all_chunks) >= 2
    /\ all_chunks[1].page_num # all_chunks[Len(all_chunks)].page_num
    /\ \E p \in 1..Len(pages_data) :
          LET pieces == chunk_text(chunker, pages_data[p].text)
          IN  /\ Len(Strip(pages_data[p].text)) >= chunker.min_chunk_size
              /\ \E k \in 1..Len(pieces) :
                    Len(Strip(pieces[k])) < chunker.min_chunk_size

\* C9: in every corpus handed to index_chunks, a chunk's citation is
\* [p<page_num>:c<chunk_id>] of its own page_num and chunk_id, with the
\* shortened file name in front when several files were merged.
C9_CitationMatchesChunk ==
    /\ cpc = "chunked" =>
          \A i \in 1..Len(all_chunks) :
              all_chunks[i].citation
                  = PageCitation(all_chunks[i].page_num, all_chunks[i].chunk_id)
    /\ cpc = "handed" =>
          \A i \in 1..Len(all_chunks) :
              all_chunks[i].citation
                  = IF Len(files) > 1
                    THEN FileCitation(ShortName(all_chunks[i].source_file),
                                      all_chunks[i].page_num, all_chunks[i].chunk_id)
                    ELSE PageCitation(all_chunks[i].page_num, all_chunks[i].chunk_id)

\* C10, as stated: every chunk chunk_pages returns has non-empty trimmed
\* text and a token_count of at least min_chunk_size.
C10_TokenCountAtLeastMinimum ==
    cpc = "chunked" =>
        \A i \in 1..Len(all_chunks) :
            /\ Strip(all_chunks[i].text) # << >>
            /\ all_chunks[i].token_count >= chunker.min_chunk_size

\* C10, amended: for a min_chunk_size of at least 1, every chunk chunk_pages
\* returns has trimmed, non-empty text of at least min_chunk_size
\* characters and a token_count of at least 1.
C10_TrimmedLengthAtLeastMinimum ==
    (cpc = "chunked" /\ chunker.min_chunk_size >= 1) =>
        \A i \in 1..Len(all_chunks) :
            /\ all_chunks[i].text = Strip(all_chunks[i].text)
            /\ all_chunks[i].text # << >>
            /\ Len(all_chunks[i].text) >= chunker.min_chunk_size
            /\ all_chunks[i].token_count >= 1

\* C10's case: a chunk long enough in characters has fewer tokens than
\* min_chunk_size.
C10_Witness ==
    /\ cpc = "chunked"
    /\ chunker.min_chunk_size >= 1
    /\ \E i \in 1..Len(all_chunks) :
          /\ Len(all_chunks[i].text) >= chunker.min_chunk_size
          /\ all_chunks[i].token_count < chunker.min_chunk_size

\* ---- claims about _chunk_text and _split_long_sentence

\* Page p of pages_data is one chunk_pages handed to _chunk_text.
PageChunked(p) ==
    /\ pages_data[p].text # << >>
    /\ Len(Strip(pages_data[p].text)) >= chunker.min_chunk_size

\* The sizes of the sentences added up, as current_size adds them.
RECURSIVE TokenSum(_, _)
TokenSum(self, sentences) ==
    IF sentences = << >> THEN 0
    ELSE count_tokens(self, Head(sentences)) + TokenSum(self, Tail(sentences))

\* C11: on a page whose sentences each have at most chunk_size tokens, with
\* chunk_overlap below chunk_size, every chunk the sentence packing of
\* _chunk_text closes (one seeded with carried-forward sentences too) has at
\* most chunk_size tokens, summed over its sentences.
C11_PackedChunkWithinChunkSize ==
    cpc = "chunked" =>
        \A p \in 1..Len(pages_data) :
            (/\ PageChunked(p)
             /\ LET sentences == split_into_sentences(pages_data[p].text)
                IN  \A i \in 1..Len(sentences) :
                        count_tokens(chunker, sentences[i]) <= chunker.chunk_size
             /\ chunker.chunk_overlap < chunker.chunk_size) =>
                LET trace == chunk_sentences(chunker, pages_data[p].text)
                IN  \A k \in 1..Len(trace) :
                        trace[k].packed =>
                            TokenSum(chunker, trace[k].sentences)
                                <= chunker.chunk_size

\* C12: for every sentence of more than chunk_size tokens, every piece
\* _split_long_sentence returns has at most chunk_size tokens, also when one
\* clause is itself longer than chunk_size or the sentence has no comma or
\* semicolon.
C12_SplitPieceWithinChunkSize ==
    cpc = "chunked" =>
        \A p \in 1..Len(pages_data) :
            PageChunked(p) =>
                LET sentences == split_into_sentences(pages_data[p].text)
                IN  \A i \in 1..Len(sentences) :
                        count_tokens(chunker, sentences[i]) > chunker.chunk_size =>
                            LET pieces == split_long_sentence(chunker, sentences[i])
                            IN  \A k \in 1..Len(pieces) :
                                    count_tokens(chunker, pieces[k])
                                        <= chunker.chunk_size

\* C13: of two consecutive chunks _chunk_text produces from a page, the
\* later one starts with the sentences carried forward from the earlier
\* one; these are a trailing run of the earlier chunk's sentences, in the
\* same order, of at most chunk_overlap tokens in all.  (The chunks are the
\* sentence lists joined by a space.)
C13_OverlapIsBoundedTrailingRun ==
    cpc = "chunked" =>
        \A p \in 1..Len(pages_data) :
            PageChunked(p) =>
                LET trace == chunk_sentences(chunker, pages_data[p].text)
                    texts == chunk_text(chunker, pages_data[p].text)
                IN  /\ Len(texts) = Len(trace)
                    /\ \A k \in 1..Len(trace) :
                          texts[k] = Join(trace[k].sentences, << " " >>)
                    /\ trace # << >> => trace[1].carried = 0
                    /\ \A k \in 2..Len(trace) :
                          LET earlier == trace[k - 1].sentences
                              later == trace[k].sentences
                              n == trace[k].carried
                          IN  /\ n <= Len(earlier)
                              /\ n < Len(later)
                              /\ SubSeq(later, 1, n)
                                    = SubSeq(earlier, Len(earlier) - n + 1, Len(earlier))
                              /\ TokenSum(chunker, SubSeq(later, 1, n))
                                    <= chunker.chunk_overlap

\* C13's case: a chunk was seeded with two sentences of the chunk before it,
\* which has a third sentence that was not carried.
C13_Witness ==
    /\ cpc = "chunked"
    /\ \E p \in 1..Len(pages_data) :
          /\ PageChunked(p)
          /\ LET trace == chunk_sentences(chunker, pages_data[p].text)
             IN  \E k \in 2..Len(trace) :
                    /\ trace[k].carried = 2
                    /\ Len(trace[k - 1].sentences) > 2

\* Whitespace normalisation: runs of whitespace become one space, none at
\* the ends.
Normalize(text) == Join(SplitWhitespace(text), << " " >>)

\* The chunks of a page that pass the minimum-size test of chunk_pages, from
\* trace[k] on, each as [text, fresh]: the stripped text chunk_pages emits
\* and the part of it that was not carried forward from the chunk before.
RECURSIVE EmittedParts(_, _, _)
EmittedParts(self, trace, k) ==
    IF k > Len(trace) THEN << >>
    ELSE LET e == trace[k]
             full == Join(e.sentences, << " " >>)
             fresh == Join(SubSeq(e.sentences, e.carried + 1, Len(e.sentences)),
                           << " " >>)
         IN  (IF Len(Strip(full)) >= self.min_chunk_size
              THEN << [text |-> Strip(full), fresh |-> fresh] >>
              ELSE << >>) \o EmittedParts(self, trace, k + 1)

\* What chunk_pages emits for page p, as EmittedParts.
PageParts(p) ==
    IF PageChunked(p)
    THEN EmittedParts(chunker, chunk_sentences(chunker, pages_data[p].text), 1)
    ELSE << >>

\* C14: for every page, the parts of its emitted chunks that were not
\* carried forward, concatenated in chunk_id order, are the page's text up
\* to whitespace: nothing is lost or altered by the minimum-size filter or
\* by the clause split and rejoin.
C14_ChunksCoverPage ==
    cpc = "chunked" =>
        \A p \in 1..Len(pages_data) :
            LET parts == PageParts(p)
                emitted == SelectSeq(all_chunks,
                               LAMBDA c : c.page_num = pages_data[p].page_num)
            IN  /\ Len(emitted) = Len(parts)
                /\ \A k \in 1..Len(parts) : emitted[k].text = parts[k].text
                /\ Normalize(Join([k \in 1..Len(parts) |-> parts[k].fresh],
                                  << " " >>))
                      = Normalize(pages_data[p].text)

\* What two chunk sequences are compared by: text, chunk_id, page_num and
\* citation at each position.
ChunkIdentity(cs) ==
    [i \in 1..Len(cs) |->
        [text |-> cs[i].text, chunk_id |-> cs[i].chunk_id,
         page_num |-> cs[i].page_num, citation |-> cs[i].citation]]

\* C15: a second run of chunk_pages on the same pages, in any chunker
\* instance with the same chunk_size, chunk_overlap and min_chunk_size,
\* returns the same chunk sequence as the first; so does a second run of
\* create_chunks on the same files.
C15_SegmentationDeterministic ==
    /\ cpc = "chunked" =>
          \A other \in Chunkers :
              (/\ other.chunk_size = chunker.chunk_size
               /\ other.chunk_overlap = chunker.chunk_overlap
               /\ other.min_chunk_size = chunker.min_chunk_size) =>
                  ChunkIdentity(chunk_pages(other, pages_data))
                      = ChunkIdentity(all_chunks)
    /\ cpc = "handed" =>
          \A tk \in BOOLEAN :
              ChunkIdentity(UploadChunks(files, tk)) = ChunkIdentity(all_chunks)

\* C16: a page with text in which no sentence boundary is detected (the
\* re.split of split_into_sentences returns one piece), and whose trimmed
\* text has at least min_chunk_size characters, yields exactly one chunk,
\* and its text is the page's trimmed text, however many tokens the page
\* has.
C16_UnsplitPageIsOneChunk ==
    cpc = "chunked" =>
        \A p \in 1..Len(pages_data) :
            (/\ Len(SplitSentenceEnds(ProtectPeriods(pages_data[p].text), << >>)) = 1
             /\ Strip(pages_data[p].text) # << >>
             /\ Len(Strip(pages_data[p].text)) >= chunker.min_chunk_size) =>
                LET emitted == SelectSeq(all_chunks,
                                   LAMBDA c : c.page_num = pages_data[p].page_num)
                IN  /\ Len(emitted) = 1
                    /\ emitted[1].text = Strip(pages_data[p].text)

\* ---- claims about search_bm25 and the fusion of search_hybrid

\* C17: on a built lexical index, search_bm25(query, top_k) returns at most
\* top_k entries, each with a score above 0, in descending score order; each
\* is the chunk of one corpus position with that position's score, no
\* position twice, and a position with a positive score is left out only
\* when top_k entries were returned and none of them scores less.
C17_LexicalTopPositive ==
    kpc = "searched" =>
        LET scores == get_scores(bm25.corpus, tokenize(kcall.query))
            items == kres.items
            n == Len(items)
        IN  /\ kres.err = ""
            /\ n <= kcall.top_k
            /\ \A i \in 1..n : items[i].score > 0
            /\ \A i \in 1..n - 1 : items[i].score >= items[i + 1].score
            /\ \E f \in [1..n -> 1..Len(chunks)] :
                  /\ \A i, j \in 1..n : f[i] = f[j] => i = j
                  /\ \A i \in 1..n :
                        /\ items[i].score = scores[f[i]]
                        /\ items[i].chunk = ChunkView(chunks[f[i]])
                  /\ \A j \in 1..Len(chunks) :
                        (scores[j] > 0 /\ \A i \in 1..n : f[i] # j) =>
                            /\ n = kcall.top_k
                            /\ \A i \in 1..n : items[i].score >= scores[j]

\* C17's case: a chunk was returned, a chunk with a smaller positive score
\* did not fit into top_k, and another chunk scores 0 or less.
C17_Witness ==
    /\ kpc = "searched"
    /\ Len(kres.items) = kcall.top_k
    /\ LET scores == get_scores(bm25.corpus, tokenize(kcall.query))
       IN  /\ \E j \in 1..Len(scores) :
                 /\ scores[j] > 0
                 /\ scores[j] < kres.items[Len(kres.items)].score
           /\ \E j \in 1..Len(scores) : scores[j] <= 0

\* The zero-based rank of chunk_id in a ranking, -1 when it is not in it.
RankIn(results, chunk_id) ==
    IF \E i \in 1..Len(results) : results[i].chunk.chunk_id = chunk_id
    THEN (CHOOSE i \in 1..Len(results) : results[i].chunk.chunk_id = chunk_id) - 1
    ELSE -1

\* The chunk_ids of a ranking.
RankedIds(results) == { results[i].chunk.chunk_id : i \in 1..Len(results) }

\* weight / (60 + rank + 1) for a chunk of a ranking and 0 for any other,
\* as a fraction.
RRFTerm(weight, rank) ==
    IF rank < 0 THEN [num |-> 0, den |-> 1]
    ELSE [num |-> weight, den |-> 60 + rank + 1]

\* The fused score the call's rankings and weights give chunk_id: the sum
\* of its terms.
ExpectedFused(chunk_id) ==
    LET l == RRFTerm(kcall.weights.bm25, RankIn(kcall.bm25_results, chunk_id))
        v == RRFTerm(kcall.weights.vector, RankIn(kcall.vector_results, chunk_id))
    IN  [num |-> l.num * v.den + v.num * l.den, den |-> l.den * v.den]

\* The fused score search_hybrid computed for chunk_id.
FusedScore(chunk_id) ==
    LET e == CHOOSE e \in { kres.rrf_scores[i] : i \in 1..Len(kres.rrf_scores) } :
                 e.chunk.chunk_id = chunk_id
    IN  e.rrf_score

SameFraction(x, y) == x.num * y.den = y.num * x.den

\* C18: every chunk of either ranking has one fused score, and it is the
\* sum, over the rankings the chunk is in, of that ranking's weight divided
\* by 60 + its zero-based rank there + 1.
C18_FusedScoreIsWeightedReciprocalRankSum ==
    kpc = "fused" =>
        /\ { kres.rrf_scores[i].chunk.chunk_id : i \in 1..Len(kres.rrf_scores) }
              = RankedIds(kcall.bm25_results) \cup RankedIds(kcall.vector_results)
        /\ \A i \in 1..Len(kres.rrf_scores) :
              SameFraction(kres.rrf_scores[i].rrf_score,
                           ExpectedFused(kres.rrf_scores[i].chunk.chunk_id))

\* C18's case: lexical [A, B, C] and vector [B, A, D] with weights 0.5 and
\* 0.5 were fused: A and B score 0.5/61 + 0.5/62, C and D 0.5/63.
C18_Witness ==
    /\ kpc = "fused"
    /\ [i \in 1..Len(kcall.bm25_results) |-> kcall.bm25_results[i].chunk.chunk_id]
          = << 0, 1, 2 >>
    /\ [i \in 1..Len(kcall.vector_results) |-> kcall.vector_results[i].chunk.chunk_id]
          = << 1, 0, 3 >>
    /\ kcall.weights = [vector |-> 5, bm25 |-> 5]
    /\ SameFraction(FusedScore(0), [num |-> 5 * 62 + 5 * 61, den |-> 61 * 62])
    /\ SameFraction(FusedScore(1), FusedScore(0))
    /\ SameFraction(FusedScore(2), [num |-> 5, den |-> 63])
    /\ SameFraction(FusedScore(3), FusedScore(2))

\* The order of first appearance in a merge that takes the lexical ranking
\* before the vector ranking: the position of chunk_id in it.
LexicalFirstPosition(chunk_id) ==
    IF RankIn(kcall.bm25_results, chunk_id) >= 0
    THEN RankIn(kcall.bm25_results, chunk_id)
    ELSE Len(kcall.bm25_results) + RankIn(kcall.vector_results, chunk_id)

\* C19: the list search_hybrid returns is in descending order of fused
\* score, and chunks of equal fused score are in the order of their first
\* appearance in the merge, the lexical ranking taken before the vector
\* ranking (A, B, C, D for lexical [A, B, C] and vector [B, A, D] with equal
\* weights).
C19_OrderedByScoreThenLexicalFirst ==
    kpc = "fused" =>
        \A i \in 1..Len(kres.final_results) - 1 :
            LET x == kres.final_results[i].chunk_id
                y == kres.final_results[i + 1].chunk_id
            IN  \/ RRFLess(FusedScore(y), FusedScore(x))
                \/ /\ SameFraction(FusedScore(x), FusedScore(y))
                   /\ LexicalFirstPosition(x) < LexicalFirstPosition(y)

\* C20: search_hybrid returns min(top_k, number of distinct chunk_ids in the
\* two rankings) results, and no chunk_id twice.
C20_ResultCountIsMinTopKDistinct ==
    kpc = "fused" =>
        LET ids == RankedIds(kcall.bm25_results) \cup RankedIds(kcall.vector_results)
            out == kres.final_results
        IN  /\ Len(out) = Min(kcall.top_k, Cardinality(ids))
            /\ \A i, j \in 1..Len(out) : out[i].chunk_id = out[j].chunk_id => i = j
            /\ \A i \in 1..Len(out) : out[i].chunk_id \in ids

\* C20's case: the two rankings share a chunk and hold more distinct chunks
\* than top_k, and top_k results were returned.
C20_Witness ==
    /\ kpc = "fused"
    /\ RankedIds(kcall.bm25_results) \cap RankedIds(kcall.vector_results) # {}
    /\ Cardinality(RankedIds(kcall.bm25_results) \cup RankedIds(kcall.vector_results))
          > kcall.top_k
    /\ Len(kres.final_results) = kcall.top_k
    /\ kcall.top_k > 1

\* The raw score a ranking gives chunk_id, 0 when the chunk is not in it.
RawScore(results, chunk_id) ==
    IF RankIn(results, chunk_id) < 0 THEN 0
    ELSE results[RankIn(results, chunk_id) + 1].score

\* C21, as stated: every result of search_hybrid has a vector_score and a
\* bm25_score; for a chunk of one ranking only, the score of the other
\* ranking is 0 and the score of its own ranking is that ranking's raw score.
C21_ScoreFieldsAreRawOrZero ==
    kpc = "fused" =>
        \A i \in 1..Len(kres.final_results) :
            LET out == kres.final_results[i]
            IN  /\ {"vector_score", "bm25_score"} \subseteq DOMAIN out
                /\ out.vector_score = RawScore(kcall.vector_results, out.chunk_id)
                /\ out.bm25_score = RawScore(kcall.bm25_results, out.chunk_id)

\* C21, amended: every result has both fields; the score of a ranking the
\* chunk is not in is 0, and the score of a ranking it is in is that
\* ranking's raw score rounded to 4 decimals (a multiple of 0.0001 at most
\* 0.00005 away from it).
C21_ScoreFieldsAreRoundedOrZero ==
    kpc = "fused" =>
        \A i \in 1..Len(kres.final_results) :
            LET out == kres.final_results[i]
                v == RawScore(kcall.vector_results, out.chunk_id)
                l == RawScore(kcall.bm25_results, out.chunk_id)
            IN  /\ {"vector_score", "bm25_score"} \subseteq DOMAIN out
                /\ RankIn(kcall.vector_results, out.chunk_id) < 0 => out.vector_score = 0
                /\ RankIn(kcall.bm25_results, out.chunk_id) < 0 => out.bm25_score = 0
                /\ out.vector_score % 10 = 0 /\ out.bm25_score % 10 = 0
                /\ out.vector_score - v \in -5..5
                /\ out.bm25_score - l \in -5..5

\* C21's case: a result is a chunk of the lexical ranking only, another a
\* chunk of the vector ranking only, and the raw scores have more than 4
\* decimals.
C21_Witness ==
    /\ kpc = "fused"
    /\ \E i, j \in 1..Len(kres.final_results) :
          LET x == kres.final_results[i]
              y == kres.final_results[j]
          IN  /\ RankIn(kcall.vector_results, x.chunk_id) < 0
              /\ x.bm25_score # RawScore(kcall.bm25_results, x.chunk_id)
              /\ RankIn(kcall.bm25_results, y.chunk_id) < 0
              /\ y.vector_score # RawScore(kcall.vector_results, y.chunk_id)

\* The results are the first min(top_k, length) chunks of the ranking, in
\* the ranking's order.
IsHeadOf(results, ranking, top_k) ==
    /\ Len(results) = Min(top_k, Len(ranking))
    /\ \A i \in 1..Len(results) :
          [text |-> results[i].text, page_num |-> results[i].page_num,
           chunk_id |-> results[i].chunk_id, citation |-> results[i].citation]
              = ranking[i].chunk

\* C22: when one of the two rankings is empty and the weight of the other
\* is positive, the fusion of search_hybrid returns the first
\* min(top_k, length) entries of the other ranking, in that ranking's order.
C22_EmptyRankingTolerated ==
    kpc = "fused" =>
        /\ (kcall.vector_results = << >> /\ kcall.weights.bm25 > 0) =>
              IsHeadOf(kres.final_results, kcall.bm25_results, kcall.top_k)
        /\ (kcall.bm25_results = << >> /\ kcall.weights.vector > 0) =>
              IsHeadOf(kres.final_results, kcall.vector_results, kcall.top_k)

\* C22's case: one of the rankings was empty, the other longer than a top_k
\* of 2, and two results were returned.
C22_Witness ==
    /\ kpc = "fused"
    /\ \/ /\ kcall.vector_results = << >>
          /\ Len(kcall.bm25_results) > kcall.top_k
          /\ kcall.top_k = 2
       \/ /\ kcall.bm25_results = << >>
          /\ Len(kcall.vector_results) > kcall.top_k
          /\ kcall.top_k = 2
    /\ Len(kres.final_results) = 2


C24_AnswerSaysNotFoundOrCitesPage ==
    kpc = "asked" =>
        \/ Contains(Lower(kres.answer), NotFoundPhrase)
        \/ Contains(kres.answer, << "[", "p" >>)


\* C28: after every ask and clear_history, conversation_history has at most
\* max_history_turns entries and they are the most recent turns of the
\* conversation in the order they were made; an ask that raises leaves
\* conversation_history as it was.
C28_HistoryIsBoundedRecentTurns ==
    /\ [](Len(conversation_history) <= max_history_turns)
    /\ [](conversation_history
              = SubSeq(all_turns,
                       Len(all_turns) - Min(max_history_turns, Len(all_turns)) + 1,
                       Len(all_turns)))
    /\ [][kpc' = "raised" => conversation_history' = conversation_history]_vars

\* C30: whenever search_hybrid returned no chunks, ask returns exactly
\* "**Answer:** Not found in the document.", whatever the language model
\* wrote.
C30_NoChunksGivesNotFound ==
    (kpc = "asked" /\ kres.retrieved_chunks = << >>) => kres.answer = NotFoundAnswer

\* ask returned on an empty retrieval for which the language model wrote an
\* answer with a citation.
C30_Witness ==
    /\ kpc = "asked"
    /\ kres.retrieved_chunks = << >>
    /\ has_citations(kcall.content)
    /\ kres.answer = NotFoundAnswer


\* C25: get_embeddings sends the texts in consecutive batches of 1 to 100
\* texts, every text in exactly one batch and in order, and returns one
\* vector per text, vector i being the embedding of text i; once the add
\* loop of index_chunks is through, item i of the collection has the id
\* str(chunk_id), the embedding, the text and the metadata of chunk i.
C25_EmbeddingsBatchedAndStoredInOrder ==
    LET cs == wcall.chunks
        texts == [i \in 1..Len(cs) |-> cs[i].text]
        batches == SentBatches(texts, 1)
        embeddings == get_embeddings(texts)
    IN  /\ \A b \in 1..Len(batches) :
              Len(batches[b]) >= 1 /\ Len(batches[b]) <= batch_size
        /\ \A i \in 1..Len(texts) :
              LET b == ((i - 1) \div batch_size) + 1
                  j == ((i - 1) % batch_size) + 1
              IN  /\ b <= Len(batches)
                  /\ j <= Len(batches[b])
                  /\ batches[b][j] = texts[i]
        /\ \A b \in 1..Len(batches) :
              Len(batches[b]) = Min(batch_size, Len(texts) - batch_size * (b - 1))
        /\ Len(embeddings) = Len(texts)
        /\ \A i \in 1..Len(texts) : embeddings[i] = Embed(texts[i])
        /\ wpc = "bm25" =>
              store.items =
                  [i \in 1..Len(cs) |->
                      [id |-> Str(cs[i].chunk_id),
                       embedding |-> Embed(cs[i].text),
                       document |-> cs[i].text,
                       metadata |-> [page_num |-> cs[i].page_num,
                                     chunk_id |-> cs[i].chunk_id,
                                     citation |-> cs[i].citation,
                                     token_count |-> cs[i].token_count]]]

\* The add loop is through on a corpus of two full batches and one more
\* chunk.
C25_Witness ==
    /\ wpc = "bm25"
    /\ Len(wcall.chunks) > 2 * batch_size
    /\ Len(store.items) = Len(wcall.chunks)
    /\ Len(SentBatches([i \in 1..Len(wcall.chunks) |-> wcall.chunks[i].text], 1)) = 3


\* C26: once index_chunks(new_chunks, force_reindex=True) has returned
\* normally on a retriever that held a complete index, the collection holds
\* the items of new_chunks and no other, by id and by text, the chunk list
\* is new_chunks, the BM25 corpus is the tokenization of their texts, and
\* every query returns what an index built from new_chunks alone returns.
C26_ForcedReindexReplacesCorpus ==
    (wpc = "idle" /\ wres = "ok" /\ wcall.force /\ wprior.complete)
        => LET new_chunks == wcall.chunks
           IN  /\ store.exists
               /\ Len(store.items) = Len(new_chunks)
               /\ \A i \in 1..Len(new_chunks) :
                     /\ store.items[i].id = Str(new_chunks[i].chunk_id)
                     /\ store.items[i].document = new_chunks[i].text
                     /\ store.items[i].metadata.citation = new_chunks[i].citation
               /\ chunks = new_chunks
               /\ bm25.built
               /\ bm25.corpus = [i \in 1..Len(new_chunks) |-> tokenize(new_chunks[i].text)]
               /\ tokenized_corpus = bm25.corpus
               /\ \A q \in Queries, k \in TopKs :
                     SearchNow(q, k) = HybridOn(new_chunks, q, k)

\* A forced re-index has replaced a complete index of several chunks by a
\* corpus of fewer chunks and other texts.
C26_Witness ==
    /\ wpc = "idle" /\ wres = "ok" /\ wcall.force /\ wprior.complete
    /\ Len(wprior.corpus) > Len(wcall.chunks)
    /\ wprior.corpus[1].text # wcall.chunks[1].text
    /\ chunks = wcall.chunks


\* C27: between calls of index_chunks, _rebuild_bm25_from_collection and
\* clear_index, however they ended, a BM25 index that is set has one corpus
\* entry per chunk of the chunk list, entry i the tokenization of chunk i's
\* text, and the chunk list has the chunk_ids of the persisted collection;
\* so search_bm25 raises no IndexError.
C27_BM25AndChunksAndStoreAligned ==
    wpc = "idle" =>
        /\ bm25.built =>
              /\ Len(bm25.corpus) = Len(chunks)
              /\ \A i \in 1..Len(chunks) : bm25.corpus[i] = tokenize(chunks[i].text)
        /\ {chunks[i].chunk_id : i \in 1..Len(chunks)}
               = {store.items[j].metadata.chunk_id : j \in 1..Len(store.items)}
        /\ \A q \in Queries, k \in TopKs :
              search_bm25(bm25, chunks, q, k).err # "IndexError"


\* The sentences the packed chunks from trace[k] on hold beyond the ones
\* carried into them, in order.
RECURSIVE NewSentences(_, _)
NewSentences(trace, k) ==
    IF k > Len(trace) THEN << >>
    ELSE (IF trace[k].packed
          THEN SubSeq(trace[k].sentences, trace[k].carried + 1, Len(trace[k].sentences))
          ELSE << >>)
         \o NewSentences(trace, k + 1)

\* C29: every chunk _chunk_text emits holds at least one sentence that was
\* not carried into it as overlap, and the sentences of at most chunk_size
\* tokens are, one by one and in the page's order, the sentences the
\* emitted chunks hold beyond their overlap: each is new in exactly one
\* chunk.
C29_EveryChunkAddsASentence ==
    cpc = "chunked" =>
        \A p \in 1..Len(pages_data) :
            PageChunked(p) =>
                LET trace == chunk_sentences(chunker, pages_data[p].text)
                    sentences == split_into_sentences(pages_data[p].text)
                    Fits(sentence) == count_tokens(chunker, sentence) <= chunker.chunk_size
                IN  /\ \A k \in 1..Len(trace) :
                          trace[k].carried < Len(trace[k].sentences)
                    /\ NewSentences(trace, 1) = SelectSeq(sentences, Fits)

\* C29's case: a chunk took over every sentence of the chunk before it and
\* one more, and a later chunk followed.
C29_Witness ==
    /\ cpc = "chunked"
    /\ \E p \in 1..Len(pages_data) :
          /\ PageChunked(p)
          /\ LET trace == chunk_sentences(chunker, pages_data[p].text)
             IN  \E k \in 2..Len(trace) - 1 :
                    /\ trace[k].carried = Len(trace[k - 1].sentences)
                    /\ trace[k].carried >= 2
                    /\ Len(trace[k].sentences) = trace[k].carried + 1

====
